---- MODULE Spec2Model ----
(***************************************************************************)
(* Column-mapping reconciliation of the AYNI front end: the schema         *)
(* registry and validator of types/columnSchema.ts and the ColumnMapping   *)
(* React component (mapping state, auto-suggestion, notification effect,   *)
(* selection surface).                                                     *)
(*                                                                         *)
(* A column name is a sequence of one-character strings, so that           *)
(* lower-casing and separator removal are computed, not assumed.           *)
(***************************************************************************)
EXTENDS Integers, Sequences, FiniteSets, TLC

(***************************************************************************)
(* Bounds of the model.                                                    *)
(***************************************************************************)
\* longest csvColumns prop the host supplies to the component
MaxCols == 2
\* longest mapping sequence handed to validateMappings on its own
MaxMappings == 5
\* the host stops re-rendering once this many mapping notifications have
\* followed one operation
MaxCalls == 3
\* longest column name, of the characters of NameChars, handed to
\* suggestMapping on its own
MaxNameLen == 4
\* longest new password typed into the change-password form
MaxPwLen == 8
\* the user stops submitting the change-password form after this many
\* calls of the store's changePassword
MaxSubmits == 2

\* most characters of one class (upper case, lower case, digit, symbol) in
\* a password given to the strength indicator
MaxClassCount == 4

(***************************************************************************)
(* JavaScript values.                                                      *)
(***************************************************************************)
\* ColumnMapping.systemColumn: SystemColumn | null
null == "null"
\* a value an object literal inherits from Object.prototype (for the key
\* "constructor": the function Object); truthy, and no SystemColumn
InheritedValue == "[inherited]"
\* an absent optional prop (initialMappings?, onValidationChange?)
undefined == "undefined"

(***************************************************************************)
(* Schema registry (types/columnSchema.ts).                                *)
(***************************************************************************)
\* Object.entries(COLUMN_SCHEMA): the entries in insertion order
COLUMN_SCHEMA ==
    << 
       [col |-> "in_dt", optional |-> 0, inferable |-> 0],
       [col |-> "in_trans_id", optional |-> 0, inferable |-> 0],
       [col |-> "in_product_id", optional |-> 0, inferable |-> 0],
       [col |-> "in_quantity", optional |-> 0, inferable |-> 0],
       [col |-> "in_price_total", optional |-> 0, inferable |-> 0],
       [col |-> "in_trans_type", optional |-> 1, inferable |-> 0],
       [col |-> "in_customer_id", optional |-> 1, inferable |-> 0],
       [col |-> "in_description", optional |-> 1, inferable |-> 0],
       [col |-> "in_category", optional |-> 1, inferable |-> 0],
       [col |-> "in_unit_type", optional |-> 1, inferable |-> 0],
       [col |-> "in_stock", optional |-> 1, inferable |-> 0],
       [col |-> "in_cost_unit", optional |-> 1, inferable |-> 1],
       [col |-> "in_cost_total", optional |-> 1, inferable |-> 1],
       [col |-> "in_price_unit", optional |-> 1, inferable |-> 1],
       [col |-> "in_discount_total", optional |-> 1, inferable |-> 1],
       [col |-> "in_commission_total", optional |-> 1, inferable |-> 1],
       [col |-> "in_margin", optional |-> 1, inferable |-> 1]
    >>

SystemColumn == { COLUMN_SCHEMA[i].col : i \in 1..Len(COLUMN_SCHEMA) }

\* Array.prototype.includes
includes(seq, x) == \E i \in 1..Len(seq) : seq[i] = x

\* entries.map(([col, _]) => col)
columnNames(entries) == [i \in 1..Len(entries) |-> entries[i].col]

\* a plausible slip: the filter reads the wrong flag of the ColumnSpec
getRequiredColumns_wrongFlag ==
    columnNames(SelectSeq(COLUMN_SCHEMA, LAMBDA spec : spec.inferable = 0))

getRequiredColumns ==
    columnNames(SelectSeq(COLUMN_SCHEMA, LAMBDA spec : spec.optional = 0))

getOptionalColumns ==
    columnNames(SelectSeq(COLUMN_SCHEMA, LAMBDA spec : spec.optional = 1))

\* the filter of getOptionalColumns in getInferableColumns
getInferableColumns_wrongFlag ==
    columnNames(SelectSeq(COLUMN_SCHEMA, LAMBDA spec : spec.optional = 1))

getInferableColumns ==
    columnNames(SelectSeq(COLUMN_SCHEMA, LAMBDA spec : spec.inferable = 1))

\* a plausible slip: the validity flag tolerates one missing column
validateMappings_offByOne(mappings) ==
    LET requiredColumns == getRequiredColumns
        mappedSystemColumns ==
            LET kept == SelectSeq(mappings, LAMBDA m : m.systemColumn # null)
            IN  [i \in 1..Len(kept) |-> kept[i].systemColumn]
        missingRequired ==
            SelectSeq(requiredColumns,
                      LAMBDA col : ~includes(mappedSystemColumns, col))
    IN  [valid |-> Len(missingRequired) <= 1,
         missingRequired |-> missingRequired]

validateMappings(mappings) ==
    LET requiredColumns == getRequiredColumns
        mappedSystemColumns ==
            LET kept == SelectSeq(mappings, LAMBDA m : m.systemColumn # null)
            IN  [i \in 1..Len(kept) |-> kept[i].systemColumn]
        missingRequired ==
            SelectSeq(requiredColumns,
                      LAMBDA col : ~includes(mappedSystemColumns, col))
    IN  [valid |-> Len(missingRequired) = 0,
         missingRequired |-> missingRequired]

(***************************************************************************)
(* Suggestion resolver (ColumnMapping component, suggestMapping).          *)
(***************************************************************************)
UpperCase ==
    << "A", "B", "C", "D", "E", "F", "G", "H", "I", "J", "K", "L", "M",
       "N", "O", "P", "Q", "R", "S", "T", "U", "V", "W", "X", "Y", "Z" >>

LowerCase ==
    << "a", "b", "c", "d", "e", "f", "g", "h", "i", "j", "k", "l", "m",
       "n", "o", "p", "q", "r", "s", "t", "u", "v", "w", "x", "y", "z" >>

\* String.prototype.toLowerCase, one character
toLowerChar(c) ==
    IF \E i \in 1..Len(UpperCase) : UpperCase[i] = c
    THEN LowerCase[CHOOSE i \in 1..Len(UpperCase) : UpperCase[i] = c]
    ELSE c

toLowerCase(s) == [i \in 1..Len(s) |-> toLowerChar(s[i])]

\* the characters of the class [_\s-]
SeparatorChars == { "_", " ", "\t", "-" }

\* replace without the g flag: only the first separator is removed
normalize_firstOnly(s) ==
    LET lower == toLowerCase(s)
        seps == { i \in 1..Len(lower) : lower[i] \in SeparatorChars }
    IN  IF seps = {} THEN lower
        ELSE LET k == CHOOSE i \in seps : \A j \in seps : i <= j
             IN  SubSeq(lower, 1, k - 1) \o SubSeq(lower, k + 1, Len(lower))

\* csvColumn.toLowerCase().replace(/[_\s-]/g, '')
normalize(s) == SelectSeq(toLowerCase(s), LAMBDA c : c \notin SeparatorChars)

\* the own properties of the object literal `suggestions`
suggestions ==
    {
       [key |-> <<"d", "a", "t", "e">>, col |-> "in_dt"],
       [key |-> <<"d", "a", "t", "e", "t", "i", "m", "e">>, col |-> "in_dt"],
       [key |-> <<"f", "e", "c", "h", "a">>, col |-> "in_dt"],
       [key |-> <<"t", "r", "a", "n", "s", "a", "c", "t", "i", "o", "n", "i", "d">>, col |-> "in_trans_id"],
       [key |-> <<"t", "r", "a", "n", "s", "i", "d">>, col |-> "in_trans_id"],
       [key |-> <<"i", "d", "t", "r", "a", "n", "s", "a", "c", "c", "i", "o", "n">>, col |-> "in_trans_id"],
       [key |-> <<"p", "r", "o", "d", "u", "c", "t", "i", "d">>, col |-> "in_product_id"],
       [key |-> <<"p", "r", "o", "d", "u", "c", "t", "o">>, col |-> "in_product_id"],
       [key |-> <<"i", "d", "p", "r", "o", "d", "u", "c", "t", "o">>, col |-> "in_product_id"],
       [key |-> <<"q", "u", "a", "n", "t", "i", "t", "y">>, col |-> "in_quantity"],
       [key |-> <<"c", "a", "n", "t", "i", "d", "a", "d">>, col |-> "in_quantity"],
       [key |-> <<"q", "t", "y">>, col |-> "in_quantity"],
       [key |-> <<"p", "r", "i", "c", "e">>, col |-> "in_price_total"],
       [key |-> <<"p", "r", "i", "c", "e", "t", "o", "t", "a", "l">>, col |-> "in_price_total"],
       [key |-> <<"t", "o", "t", "a", "l">>, col |-> "in_price_total"],
       [key |-> <<"p", "r", "e", "c", "i", "o">>, col |-> "in_price_total"],
       [key |-> <<"r", "e", "v", "e", "n", "u", "e">>, col |-> "in_price_total"],
       [key |-> <<"c", "u", "s", "t", "o", "m", "e", "r">>, col |-> "in_customer_id"],
       [key |-> <<"c", "u", "s", "t", "o", "m", "e", "r", "i", "d">>, col |-> "in_customer_id"],
       [key |-> <<"c", "l", "i", "e", "n", "t", "e">>, col |-> "in_customer_id"],
       [key |-> <<"d", "e", "s", "c", "r", "i", "p", "t", "i", "o", "n">>, col |-> "in_description"],
       [key |-> <<"d", "e", "s", "c", "r", "i", "p", "c", "i", "o", "n">>, col |-> "in_description"],
       [key |-> <<"c", "a", "t", "e", "g", "o", "r", "y">>, col |-> "in_category"],
       [key |-> <<"c", "a", "t", "e", "g", "o", "r", "i", "a">>, col |-> "in_category"],
       [key |-> <<"c", "o", "s", "t">>, col |-> "in_cost_total"],
       [key |-> <<"c", "o", "s", "t", "t", "o", "t", "a", "l">>, col |-> "in_cost_total"],
       [key |-> <<"c", "o", "s", "t", "o">>, col |-> "in_cost_total"],
       [key |-> <<"s", "t", "o", "c", "k">>, col |-> "in_stock"],
       [key |-> <<"i", "n", "v", "e", "n", "t", "o", "r", "y">>, col |-> "in_stock"],
       [key |-> <<"i", "n", "v", "e", "n", "t", "a", "r", "i", "o">>, col |-> "in_stock"],
       [key |-> <<"m", "a", "r", "g", "i", "n">>, col |-> "in_margin"],
       [key |-> <<"m", "a", "r", "g", "e", "n">>, col |-> "in_margin"],
       [key |-> <<"d", "i", "s", "c", "o", "u", "n", "t">>, col |-> "in_discount_total"],
       [key |-> <<"d", "e", "s", "c", "u", "e", "n", "t", "o">>, col |-> "in_discount_total"]
    }

\* string-keyed properties every object literal inherits from
\* Object.prototype; all of them are truthy
ObjectPrototypeKeys ==
    { <<"c", "o", "n", "s", "t", "r", "u", "c", "t", "o", "r">>,
      <<"t", "o", "S", "t", "r", "i", "n", "g">>,
      <<"v", "a", "l", "u", "e", "O", "f">>,
      <<"h", "a", "s", "O", "w", "n", "P", "r", "o", "p", "e", "r", "t", "y">>,
      <<"_", "_", "p", "r", "o", "t", "o", "_", "_">> }

\* suggestions[key]: own property first, then the prototype chain
PropertyOf(key) ==
    IF \E e \in suggestions : e.key = key
    THEN (CHOOSE e \in suggestions : e.key = key).col
    ELSE IF key \in ObjectPrototypeKeys THEN InheritedValue
    ELSE undefined

\* the lookup without the normalization of line 321
suggestMapping_noNormalize(csvColumn) ==
    LET found == PropertyOf(csvColumn)
    IN  IF found = undefined THEN null ELSE found

\* return suggestions[normalized] || null
suggestMapping(csvColumn) ==
    LET found == PropertyOf(normalize(csvColumn))
    IN  IF found = undefined THEN null ELSE found

(***************************************************************************)
(* State.                                                                  *)
(***************************************************************************)
VARIABLES
    phase,              \* "unmounted", "mounted", or "crashed": an error
                        \* thrown inside an effect reached React, which
                        \* unmounts the tree
    csvColumns,         \* prop: the source-column names
    initialMappings,    \* prop: [given, value]; given = FALSE is undefined
    onValidationChange, \* prop: "function" or undefined
    onMappingChange,    \* prop: "function", or null (not a function)
    mappings,           \* useState: sequence of [csvColumn, systemColumn]
    pendingEffects,     \* effects the last commit scheduled
    lastOp,             \* what caused the last commit
    mapCalls,           \* onMappingChange calls since the last operation
    validCalls,         \* onValidationChange calls since the last operation
    lastMapArg,         \* argument of the last onMappingChange call
    lastValidArg,       \* argument of the last onValidationChange call
    thrownBy,           \* the callback whose exception left its effect
    vMappings,          \* validateMappings on its own: the argument
    vResult,            \* validateMappings on its own: the value returned
    fnArgs,             \* another function on its own: the arguments
    fnResult,           \* another function on its own: the value returned
    form,               \* ChangePassword or Login: the values of the inputs
    errors,             \* the page's formState.errors, a set of issues
    success,            \* ChangePassword: useState(false)
    isLoading,          \* auth store
    error,              \* auth store: null or a message
    request,            \* the page's call of authApi: "none" or "pending"
    calls,              \* the page's calls of the store so far
    lastData,           \* the argument of the last of them
    timers,             \* redirect timers set and not yet fired
    location,           \* the route shown
    user,               \* auth store: null or the user
    tokens,             \* auth store: null or the token pair
    isAuthenticated,    \* auth store
    localStorage,       \* the items ayni_tokens and ayni_user
    pending,            \* HTTP client: the requests awaiting an answer
    lastEvent           \* what the last step of store and client did

vars == << phase, csvColumns, initialMappings, onValidationChange,
           onMappingChange, mappings, pendingEffects, lastOp, mapCalls,
           validCalls, lastMapArg, lastValidArg, thrownBy, vMappings, vResult,
           fnArgs, fnResult, form, errors, success, isLoading, error, request,
           calls, lastData, timers, location, user, tokens, isAuthenticated,
           localStorage, pending, lastEvent >>

validatorVars == << vMappings, vResult >>

\* the state of the mounted ColumnMapping component, but for lastOp
componentVars == << phase, csvColumns, initialMappings, onValidationChange,
                    onMappingChange, mappings, pendingEffects, mapCalls,
                    validCalls, lastMapArg, lastValidArg, thrownBy >>

\* the change-password page and the auth store
passwordVars == << form, errors, success, isLoading, error, request, calls,
                  lastData, timers, location >>

\* the rest of the auth store, local storage and the HTTP client
sessionVars == << user, tokens, isAuthenticated, localStorage, pending,
                  lastEvent >>

\* what no operation of store and client touches, the pages aside
mappingVarsButSession ==
    << componentVars, lastOp, vMappings, vResult, fnArgs, fnResult >>

\* what no operation of the change-password page touches
mappingVars == << mappingVarsButSession, sessionVars >>

\* what no operation of the component touches
outsideVars == << vMappings, vResult, fnArgs, fnResult, passwordVars,
                 sessionVars >>

(***************************************************************************)
(* Inputs.                                                                 *)
(***************************************************************************)
\* source-column names the host supplies: two synonyms of in_dt (one of
\* them capitalised), a name without synonym, and a name that is a
\* property of Object.prototype
NamePool ==
    { <<"d", "a", "t", "e">>,
      <<"F", "e", "c", "h", "a">>,
      <<"c", "o", "l", "1">>,
      <<"c", "o", "n", "s", "t", "r", "u", "c", "t", "o", "r">> }

\* the options of a <select> the user picks from, besides "Not mapped"
PickedColumns == { "in_dt", "in_trans_id", "in_customer_id" }

SeqsUpTo(S, n) == UNION { [1..k -> S] : k \in 0..n }

CsvLists == SeqsUpTo(NamePool, MaxCols)

\* caller-supplied seeds: absent, empty, or one entry per source column, in
\* order, no system column used twice (the caller's side of the contract)
SeedsFor(cols) ==
    { [given |-> FALSE, value |-> <<>>], [given |-> TRUE, value |-> <<>>] }
    \cup
    { [given |-> TRUE,
       value |-> [i \in 1..Len(cols) |->
                     [csvColumn |-> cols[i], systemColumn |-> t[i]]]] :
        t \in { u \in [1..Len(cols) -> PickedColumns \cup {null}] :
                  /\ Len(cols) > 0
                  /\ \A i, j \in 1..Len(cols) :
                        (i # j /\ u[i] # null) => u[i] # u[j] } }

\* arguments of validateMappings on its own: targets are the required
\* columns, one optional column, or null
ValidatorTargets ==
    { "in_dt", "in_trans_id", "in_product_id", "in_quantity", "in_price_total",
      "in_customer_id", null }

Digits == << "1", "2", "3", "4", "5", "6", "7", "8", "9" >>

ValidatorInputs ==
    { [i \in 1..Len(t) |-> [csvColumn |-> <<"c", Digits[i]>>,
                            systemColumn |-> t[i]]] :
        t \in SeqsUpTo(ValidatorTargets, MaxMappings) }

(***************************************************************************)
(* The component's functions.                                              *)
(***************************************************************************)
\* getMappedCsvColumn's null: no column name, a name being made of
\* one-character strings
NoCsvColumn == << null >>

\* useState initializer
initialState(cols, seed) ==
    IF seed.given /\ Len(seed.value) > 0
    THEN seed.value
    ELSE [i \in 1..Len(cols) |-> [csvColumn |-> cols[i], systemColumn |-> null]]

\* csvColumns.map(col => ({csvColumn: col, systemColumn: suggestMapping(col)}))
suggestedMappings(cols) ==
    [i \in 1..Len(cols) |->
        [csvColumn |-> cols[i], systemColumn |-> suggestMapping(cols[i])]]

\* an updater that keeps the targets unique: it takes systemColumn away
\* from the entries of the other source columns
handleMappingChange_unique(prev, csvColumn, systemColumn) ==
    [i \in 1..Len(prev) |->
        IF prev[i].csvColumn = csvColumn
        THEN [prev[i] EXCEPT !.systemColumn = systemColumn]
        ELSE IF systemColumn # null /\ prev[i].systemColumn = systemColumn
        THEN [prev[i] EXCEPT !.systemColumn = null]
        ELSE prev[i]]

\* the updater handleMappingChange hands to setMappings
handleMappingChange(prev, csvColumn, systemColumn) ==
    [i \in 1..Len(prev) |->
        IF prev[i].csvColumn = csvColumn
        THEN [prev[i] EXCEPT !.systemColumn = systemColumn]
        ELSE prev[i]]

isSystemColumnMapped(ms, systemColumn) ==
    \E i \in 1..Len(ms) : ms[i].systemColumn = systemColumn

\* mappings.find(m => m.systemColumn === systemColumn)?.csvColumn || null
getMappedCsvColumn(ms, systemColumn) ==
    IF ~isSystemColumnMapped(ms, systemColumn) THEN NoCsvColumn
    ELSE LET first == CHOOSE i \in 1..Len(ms) :
                        /\ ms[i].systemColumn = systemColumn
                        /\ \A j \in 1..(i - 1) : ms[j].systemColumn # systemColumn
         IN  IF ms[first].csvColumn = <<>> THEN NoCsvColumn
             ELSE ms[first].csvColumn

\* renderCsvColumn: mappings.find(m => m.csvColumn === csvColumn)?.systemColumn
currentTarget(ms, csvColumn) ==
    IF \E i \in 1..Len(ms) : ms[i].csvColumn = csvColumn
    THEN ms[CHOOSE i \in 1..Len(ms) :
                /\ ms[i].csvColumn = csvColumn
                /\ \A j \in 1..(i - 1) : ms[j].csvColumn # csvColumn].systemColumn
    ELSE undefined

\* <option disabled={isSystemColumnMapped(col) && systemColumn !== col}>
optionDisabled(ms, csvColumn, col) ==
    isSystemColumnMapped(ms, col) /\ currentTarget(ms, csvColumn) # col

\* renderCsvColumn: the memoized registry lists, the option groups of the
\* <select> of csvColumn and the options rendered disabled
renderCsvColumn(ms, csvColumn) ==
    LET requiredColumns == getRequiredColumns
        optionalColumns == getOptionalColumns
        inferableColumns == getInferableColumns
        optionalGroup ==
            SelectSeq(optionalColumns, LAMBDA col : ~includes(inferableColumns, col))
        options == requiredColumns \o optionalGroup \o inferableColumns
    IN  [requiredColumns |-> requiredColumns,
         optionalColumns |-> optionalColumns,
         inferableColumns |-> inferableColumns,
         optionalGroup |-> optionalGroup,
         disabled |-> { options[i] : i \in { j \in 1..Len(options) :
                            optionDisabled(ms, csvColumn, options[j]) } }]

\* renderSystemColumn: the remove button is rendered
removeButtonShown(ms, systemColumn) ==
    /\ isSystemColumnMapped(ms, systemColumn)
    /\ getMappedCsvColumn(ms, systemColumn) # NoCsvColumn

\* removeMapping: the remove button's onClick where it is rendered
removeMapping(ms, systemColumn) ==
    IF removeButtonShown(ms, systemColumn)
    THEN handleMappingChange(ms, getMappedCsvColumn(ms, systemColumn), null)
    ELSE ms

(***************************************************************************)
(* Operations.                                                             *)
(***************************************************************************)
Quiescent == phase = "mounted" /\ pendingEffects = {}

\* first render: the useState initializer runs, both effects are scheduled
Mount(cols, seed, onValidation, onMapping) ==
    /\ phase = "unmounted"
    /\ phase' = "mounted"
    /\ csvColumns' = cols
    /\ initialMappings' = seed
    /\ onValidationChange' = onValidation
    /\ onMappingChange' = onMapping
    /\ mappings' = initialState(cols, seed)
    /\ pendingEffects' = { "notify", "suggest" }
    /\ lastOp' = "init"
    /\ mapCalls' = 0
    /\ validCalls' = 0
    /\ UNCHANGED << lastMapArg, lastValidArg, thrownBy, outsideVars >>

\* a plausible slip: the flag delivered is the one of the mapping state
\* delivered in the round before
FlushEffects_staleFlag(validationThrows, mappingThrows) ==
    /\ phase = "mounted"
    /\ pendingEffects # {}
    /\ LET notify == "notify" \in pendingEffects
           validation == validateMappings(lastMapArg)
           callsValidation == notify /\ onValidationChange # undefined
           validationThrew == callsValidation /\ validationThrows
           callsMapping == notify /\ ~validationThrew
           notCallable == callsMapping /\ onMappingChange = null
           mappingThrew == callsMapping /\ ~notCallable /\ mappingThrows
           threw == validationThrew \/ notCallable \/ mappingThrew
           suggests == /\ ~threw
                       /\ "suggest" \in pendingEffects
                       /\ ~initialMappings.given
       IN  /\ validCalls' = IF callsValidation THEN validCalls + 1 ELSE validCalls
           /\ lastValidArg' = IF callsValidation THEN validation.valid
                              ELSE lastValidArg
           /\ mapCalls' = IF callsMapping /\ ~notCallable THEN mapCalls + 1
                          ELSE mapCalls
           /\ lastMapArg' = IF callsMapping /\ ~notCallable THEN mappings
                            ELSE lastMapArg
           /\ thrownBy' = IF validationThrew THEN "onValidationChange"
                          ELSE IF notCallable THEN "TypeError"
                          ELSE IF mappingThrew THEN "onMappingChange"
                          ELSE thrownBy
           /\ phase' = IF threw THEN "crashed" ELSE phase
           /\ mappings' = IF suggests THEN suggestedMappings(csvColumns)
                          ELSE mappings
           /\ pendingEffects' = IF suggests THEN { "notify" } ELSE {}
    /\ UNCHANGED << csvColumns, initialMappings, onValidationChange,
                    onMappingChange, lastOp,
                    outsideVars >>

\* The effects of one commit, in declaration order: the validation /
\* notification effect, then the auto-suggest effect.  A callback that
\* throws leaves the effect; nothing in the component catches it, and
\* calling an onMappingChange that is no function throws a TypeError.
FlushEffects(validationThrows, mappingThrows) ==
    /\ phase = "mounted"
    /\ pendingEffects # {}
    /\ LET notify == "notify" \in pendingEffects
           validation == validateMappings(mappings)
           callsValidation == notify /\ onValidationChange # undefined
           validationThrew == callsValidation /\ validationThrows
           callsMapping == notify /\ ~validationThrew
           notCallable == callsMapping /\ onMappingChange = null
           mappingThrew == callsMapping /\ ~notCallable /\ mappingThrows
           threw == validationThrew \/ notCallable \/ mappingThrew
           suggests == /\ ~threw
                       /\ "suggest" \in pendingEffects
                       /\ ~initialMappings.given
       IN  /\ validCalls' = IF callsValidation THEN validCalls + 1 ELSE validCalls
           /\ lastValidArg' = IF callsValidation THEN validation.valid
                              ELSE lastValidArg
           /\ mapCalls' = IF callsMapping /\ ~notCallable THEN mapCalls + 1
                          ELSE mapCalls
           /\ lastMapArg' = IF callsMapping /\ ~notCallable THEN mappings
                            ELSE lastMapArg
           /\ thrownBy' = IF validationThrew THEN "onValidationChange"
                          ELSE IF notCallable THEN "TypeError"
                          ELSE IF mappingThrew THEN "onMappingChange"
                          ELSE thrownBy
           /\ phase' = IF threw THEN "crashed" ELSE phase
           /\ mappings' = IF suggests THEN suggestedMappings(csvColumns)
                          ELSE mappings
           /\ pendingEffects' = IF suggests THEN { "notify" } ELSE {}
    /\ UNCHANGED << csvColumns, initialMappings, onValidationChange,
                    onMappingChange, lastOp,
                    outsideVars >>

\* setMapping: the user picks an enabled option of csvColumn's <select>
SetMapping(csvColumn, value) ==
    /\ Quiescent
    /\ includes(csvColumns, csvColumn)
    /\ value # null => ~optionDisabled(mappings, csvColumn, value)
    /\ mappings' = handleMappingChange(mappings, csvColumn, value)
    /\ pendingEffects' = { "notify" }
    /\ lastOp' = "setMapping"
    /\ mapCalls' = 0
    /\ validCalls' = 0
    /\ UNCHANGED << phase, csvColumns, initialMappings, onValidationChange,
                    onMappingChange, lastMapArg, lastValidArg, thrownBy, outsideVars >>

\* removeMapping: the user clicks the remove button of systemColumn
RemoveMapping(systemColumn) ==
    /\ Quiescent
    /\ removeButtonShown(mappings, systemColumn)
    /\ mappings' = removeMapping(mappings, systemColumn)
    /\ pendingEffects' = { "notify" }
    /\ lastOp' = "removeMapping"
    /\ mapCalls' = 0
    /\ validCalls' = 0
    /\ UNCHANGED << phase, csvColumns, initialMappings, onValidationChange,
                    onMappingChange, lastMapArg, lastValidArg, thrownBy, outsideVars >>

\* The host renders the component again.  An inline csvColumns array is a
\* new object with the same content, inline callbacks are new functions:
\* the effects that list them as dependencies are scheduled again.
HostRerender(freshColumns, freshCallbacks) ==
    /\ Quiescent
    /\ mapCalls < MaxCalls
    /\ freshColumns \/ freshCallbacks
    /\ pendingEffects' = (IF freshColumns THEN { "suggest" } ELSE {})
                            \cup (IF freshCallbacks THEN { "notify" } ELSE {})
    /\ lastOp' = "host"
    /\ UNCHANGED << phase, csvColumns, initialMappings, onValidationChange,
                    onMappingChange, mappings, mapCalls, validCalls, lastMapArg, lastValidArg,
                    thrownBy, outsideVars >>

\* before the first render
Unmounted ==
    /\ phase = "unmounted"
    /\ csvColumns = <<>>
    /\ initialMappings = [given |-> FALSE, value |-> <<>>]
    /\ onValidationChange = undefined
    /\ onMappingChange = "function"
    /\ mappings = <<>>
    /\ pendingEffects = {}
    /\ mapCalls = 0
    /\ validCalls = 0
    /\ lastMapArg = <<>>
    /\ lastValidArg = FALSE
    /\ thrownBy = "none"

\* the value of an empty input, and the form's defaultValues
EmptyString == <<>>

defaultValues ==
    [old_password |-> EmptyString, new_password |-> EmptyString,
     new_password_confirm |-> EmptyString]

\* the change-password page as first rendered, the store idle
PasswordPageFresh ==
    /\ form = defaultValues
    /\ errors = {}
    /\ success = FALSE
    /\ isLoading = FALSE
    /\ error = null
    /\ request = "none"
    /\ calls = 0
    /\ lastData = defaultValues
    /\ timers = 0
    /\ location = "/change-password"

\* JSON.stringify and JSON.parse: a value and its text
JSON_stringify(value) == << value >>

JSON_parse(text) == text[1]

\* localStorage.getItem of a key never set or removed (null), a request
\* without Authorization header, a request without body
NoItem == <<>>

NoAuthorization == <<>>

NoBody == <<>>

EmptyStorage == [ayni_tokens |-> NoItem, ayni_user |-> NoItem]

\* no request, and no step of store or client yet
NoRequest ==
    [op |-> "none", body |-> NoBody, Authorization |-> NoAuthorization,
     retry |-> FALSE, stage |-> "none", sends |-> 0, stale |-> FALSE]

NoData == [user |-> null, tokens |-> null]

NoEvent ==
    [kind |-> "none", request |-> NoRequest, status |-> 0, data |-> NoData,
     result |-> "none", reason |-> "none", call |-> "none"]

\* the auth store as created in a browser without stored items
SessionFresh ==
    /\ user = null
    /\ tokens = null
    /\ isAuthenticated = FALSE
    /\ localStorage = EmptyStorage
    /\ pending = <<>>
    /\ lastEvent = NoEvent

\* no function has been called on its own
NothingCalled ==
    /\ fnArgs = <<>>
    /\ fnResult = <<>>

Init ==
    /\ Unmounted
    /\ PasswordPageFresh
    /\ SessionFresh
    /\ lastOp = "none"
    /\ vMappings = <<>>
    /\ vResult = [valid |-> FALSE, missingRequired |-> <<>>]
    /\ NothingCalled

Next ==
    \/ \E cols \in CsvLists, onValidation \in { "function", undefined },
          onMapping \in { "function", null } :
          \E seed \in SeedsFor(cols) : Mount(cols, seed, onValidation, onMapping)
    \/ \E validationThrows, mappingThrows \in BOOLEAN :
          FlushEffects(validationThrows, mappingThrows)
    \/ \E c \in NamePool, value \in PickedColumns \cup { null } :
          SetMapping(c, value)
    \/ \E systemColumn \in SystemColumn : RemoveMapping(systemColumn)
    \/ \E freshColumns, freshCallbacks \in BOOLEAN :
          HostRerender(freshColumns, freshCallbacks)

Spec == Init /\ [][Next]_vars

(***************************************************************************)
(* A host whose onMappingChange callback itself changes a mapping.         *)
(***************************************************************************)
\* The effects of one commit when onMappingChange, while it is being
\* called, changes the <select> of csvColumn to value: handleMappingChange
\* queues its updater; the auto-suggest effect of the same commit, if it
\* runs, queues its setMappings(suggested) behind it; React then applies
\* the queue in order and schedules the notification effect again.
FlushEffectsReentrant(csvColumn, value) ==
    /\ phase = "mounted"
    /\ "notify" \in pendingEffects
    /\ onMappingChange = "function"
    /\ lastOp # "reentrant"
    /\ includes(csvColumns, csvColumn)
    /\ value # null => ~optionDisabled(mappings, csvColumn, value)
    /\ LET validation == validateMappings(mappings)
           callsValidation == onValidationChange # undefined
           suggests == "suggest" \in pendingEffects /\ ~initialMappings.given
           updated == handleMappingChange(mappings, csvColumn, value)
       IN  /\ validCalls' = IF callsValidation THEN validCalls + 1 ELSE validCalls
           /\ lastValidArg' = IF callsValidation THEN validation.valid
                              ELSE lastValidArg
           /\ mapCalls' = mapCalls + 1
           /\ lastMapArg' = mappings
           /\ mappings' = IF suggests THEN suggestedMappings(csvColumns)
                          ELSE updated
    /\ pendingEffects' = { "notify" }
    /\ lastOp' = "reentrant"
    /\ UNCHANGED << phase, csvColumns, initialMappings, onValidationChange,
                    onMappingChange, thrownBy, outsideVars >>

\* the host mounts the component once and does not render it again
ReentrantNext ==
    \/ \E cols \in CsvLists, onValidation \in { "function", undefined } :
          \E seed \in SeedsFor(cols) : Mount(cols, seed, onValidation, "function")
    \/ \E validationThrows, mappingThrows \in BOOLEAN :
          FlushEffects(validationThrows, mappingThrows)
    \/ \E c \in NamePool, value \in PickedColumns \cup { null } :
          FlushEffectsReentrant(c, value)
    \/ \E c \in NamePool, value \in PickedColumns \cup { null } :
          SetMapping(c, value)
    \/ \E systemColumn \in SystemColumn : RemoveMapping(systemColumn)

ReentrantSpec == Init /\ [][ReentrantNext]_vars

(***************************************************************************)
(* validateMappings on its own: any mapping sequence in, the result out.   *)
(***************************************************************************)
ValidatorInit ==
    /\ Unmounted
    /\ PasswordPageFresh
    /\ SessionFresh
    /\ lastOp = "none"
    /\ vMappings \in ValidatorInputs
    /\ vResult = [valid |-> FALSE, missingRequired |-> <<>>]
    /\ NothingCalled

Validate ==
    /\ lastOp = "none"
    /\ vResult' = validateMappings(vMappings)
    /\ lastOp' = "validate"
    /\ UNCHANGED << componentVars, vMappings, fnArgs, fnResult, passwordVars,
                    sessionVars >>

ValidatorNext == Validate

ValidatorSpec == ValidatorInit /\ [][ValidatorNext]_vars

(***************************************************************************)
(* suggestMapping on its own: any column name in, the suggestion out.      *)
(***************************************************************************)
\* the characters of the names built for suggestMapping: the letters of
\* the synonym "qty", one of them also in upper case, and the separators
\* underscore, hyphen and space
NameChars == { "q", "t", "y", "Q", "_", "-", " " }

\* names that are reserved identifiers of a JavaScript object
ReservedNames ==
    { <<"c", "o", "n", "s", "t", "r", "u", "c", "t", "o", "r">>,
      <<"_", "_", "p", "r", "o", "t", "o", "_", "_">>,
      <<"p", "r", "o", "t", "o", "t", "y", "p", "e">> }

\* the csvColumns of the Spanish-header file of the tests (mockCsvColumns)
ScenarioA ==
    << <<"f", "e", "c", "h", "a">>,
       <<"i", "d", "_", "t", "r", "a", "n", "s", "a", "c", "c", "i", "o", "n">>,
       <<"p", "r", "o", "d", "u", "c", "t", "o">>,
       <<"c", "a", "n", "t", "i", "d", "a", "d">>,
       <<"p", "r", "e", "c", "i", "o", "_", "t", "o", "t", "a", "l">>,
       <<"c", "l", "i", "e", "n", "t", "e">> >>

SuggestInputs ==
    SeqsUpTo(NameChars, MaxNameLen) \cup ReservedNames \cup NamePool
        \cup { ScenarioA[i] : i \in 1..Len(ScenarioA) }

SuggestInit ==
    /\ Unmounted
    /\ PasswordPageFresh
    /\ SessionFresh
    /\ lastOp = "none"
    /\ vMappings = <<>>
    /\ vResult = [valid |-> FALSE, missingRequired |-> <<>>]
    /\ fnArgs \in SuggestInputs
    /\ fnResult = <<>>

Suggest ==
    /\ lastOp = "none"
    /\ fnResult' = suggestMapping(fnArgs)
    /\ lastOp' = "suggest"
    /\ UNCHANGED << componentVars, validatorVars, fnArgs, passwordVars,
                    sessionVars >>

SuggestNext == Suggest

SuggestSpec == SuggestInit /\ [][SuggestNext]_vars

(***************************************************************************)
(* handleMappingChange's updater and renderCsvColumn on their own: any     *)
(* mapping state in, the next state or the rendered <select> out.          *)
(***************************************************************************)
\* mapping states: any sequence of entries, as a caller's seed can be any
MappingStates ==
    { [i \in 1..Len(p) |-> [csvColumn |-> p[i][1], systemColumn |-> p[i][2]]] :
        p \in SeqsUpTo(NamePool \X (PickedColumns \cup { null }), MaxCols) }

HandlerInit ==
    /\ Unmounted
    /\ PasswordPageFresh
    /\ SessionFresh
    /\ lastOp = "none"
    /\ vMappings = <<>>
    /\ vResult = [valid |-> FALSE, missingRequired |-> <<>>]
    /\ fnArgs \in [mappings : MappingStates, csvColumn : NamePool,
                    systemColumn : PickedColumns \cup { null }]
    /\ fnResult = <<>>

ApplyMappingChange ==
    /\ lastOp = "none"
    /\ fnResult' = handleMappingChange(fnArgs.mappings, fnArgs.csvColumn,
                                       fnArgs.systemColumn)
    /\ lastOp' = "handleMappingChange"
    /\ UNCHANGED << componentVars, validatorVars, fnArgs, passwordVars,
                    sessionVars >>

HandlerNext == ApplyMappingChange

HandlerSpec == HandlerInit /\ [][HandlerNext]_vars

RenderInit ==
    /\ Unmounted
    /\ PasswordPageFresh
    /\ SessionFresh
    /\ lastOp = "none"
    /\ vMappings = <<>>
    /\ vResult = [valid |-> FALSE, missingRequired |-> <<>>]
    /\ fnArgs \in [mappings : MappingStates, csvColumn : NamePool]
    /\ fnResult = <<>>

Render ==
    /\ lastOp = "none"
    /\ fnResult' = renderCsvColumn(fnArgs.mappings, fnArgs.csvColumn)
    /\ lastOp' = "render"
    /\ UNCHANGED << componentVars, validatorVars, fnArgs, passwordVars,
                    sessionVars >>

RenderNext == Render

RenderSpec == RenderInit /\ [][RenderNext]_vars

(***************************************************************************)
(* The component mounted on the Spanish-header file of the tests.          *)
(***************************************************************************)
ScenarioNext ==
    \/ \E onValidation \in { "function", undefined },
          onMapping \in { "function", null }, given \in BOOLEAN :
          Mount(ScenarioA, [given |-> given, value |-> <<>>], onValidation,
                onMapping)
    \/ \E validationThrows, mappingThrows \in BOOLEAN :
          FlushEffects(validationThrows, mappingThrows)
    \/ \E i \in 1..Len(ScenarioA), value \in PickedColumns \cup { null } :
          SetMapping(ScenarioA[i], value)
    \/ \E systemColumn \in SystemColumn : RemoveMapping(systemColumn)
    \/ \E freshColumns, freshCallbacks \in BOOLEAN :
          HostRerender(freshColumns, freshCallbacks)

ScenarioSpec == Init /\ [][ScenarioNext]_vars

(***************************************************************************)
(* The component mounted on that file, the user completing the mapping by  *)
(* hand: the selections include the one column auto-suggestion leaves out. *)
(***************************************************************************)
CompletingColumns == { "in_dt", "in_price_total" }

NotifyNext ==
    \/ \E onValidation \in { "function", undefined },
          onMapping \in { "function", null }, given \in BOOLEAN :
          Mount(ScenarioA, [given |-> given, value |-> <<>>], onValidation,
                onMapping)
    \/ \E validationThrows, mappingThrows \in BOOLEAN :
          FlushEffects(validationThrows, mappingThrows)
    \/ \E i \in 1..Len(ScenarioA), value \in CompletingColumns \cup { null } :
          SetMapping(ScenarioA[i], value)
    \/ \E systemColumn \in SystemColumn : RemoveMapping(systemColumn)
    \/ \E freshColumns, freshCallbacks \in BOOLEAN :
          HostRerender(freshColumns, freshCallbacks)

NotifySpec == Init /\ [][NotifyNext]_vars

(***************************************************************************)
(* Change-password page (pages/Auth/ChangePassword.tsx) and the auth       *)
(* store's changePassword.  A password is a sequence of one-character      *)
(* strings, so that the schema's length and character checks are computed. *)
(***************************************************************************)
\* .min(8, ...) of new_password
MinPasswordLength == 8

DigitChars == { "0", "1", "2", "3", "4", "5", "6", "7", "8", "9" }

\* RegExp.prototype.test for a one-character class, unanchored
hasCharIn(s, class) == \E i \in 1..Len(s) : s[i] \in class

\* the object schema alone, without the two refinements
changePasswordSchema_noRefine(data) ==
    (IF Len(data.old_password) < 1 THEN { "old_password: requerida" } ELSE {})
    \cup (IF Len(data.new_password) < 1 THEN { "new_password: requerida" } ELSE {})
    \cup (IF Len(data.new_password) < MinPasswordLength
          THEN { "new_password: al menos 8 caracteres" } ELSE {})
    \cup (IF ~hasCharIn(data.new_password, { UpperCase[i] : i \in 1..Len(UpperCase) })
          THEN { "new_password: una mayuscula" } ELSE {})
    \cup (IF ~hasCharIn(data.new_password, { LowerCase[i] : i \in 1..Len(LowerCase) })
          THEN { "new_password: una minuscula" } ELSE {})
    \cup (IF ~hasCharIn(data.new_password, DigitChars)
          THEN { "new_password: un numero" } ELSE {})
    \cup (IF Len(data.new_password_confirm) < 1
          THEN { "new_password_confirm: confirma" } ELSE {})

\* changePasswordSchema.safeParse(data): the issues; none when data is valid
changePasswordSchema(data) ==
    (IF Len(data.old_password) < 1 THEN { "old_password: requerida" } ELSE {})
    \cup (IF Len(data.new_password) < 1 THEN { "new_password: requerida" } ELSE {})
    \cup (IF Len(data.new_password) < MinPasswordLength
          THEN { "new_password: al menos 8 caracteres" } ELSE {})
    \cup (IF ~hasCharIn(data.new_password, { UpperCase[i] : i \in 1..Len(UpperCase) })
          THEN { "new_password: una mayuscula" } ELSE {})
    \cup (IF ~hasCharIn(data.new_password, { LowerCase[i] : i \in 1..Len(LowerCase) })
          THEN { "new_password: una minuscula" } ELSE {})
    \cup (IF ~hasCharIn(data.new_password, DigitChars)
          THEN { "new_password: un numero" } ELSE {})
    \cup (IF Len(data.new_password_confirm) < 1
          THEN { "new_password_confirm: confirma" } ELSE {})
    \cup (IF ~(data.new_password # data.old_password)
          THEN { "new_password: diferente a la actual" } ELSE {})
    \cup (IF ~(data.new_password = data.new_password_confirm)
          THEN { "new_password_confirm: no coinciden" } ELSE {})

\* <Input disabled={isLoading || success}>, the three of them
inputsDisabled == isLoading \/ success

\* Cancel: <Button disabled={isLoading || success}>
cancelDisabled == isLoading \/ success

\* Submit: <Button isLoading={isLoading} disabled={success}>; a Button
\* that is loading is disabled too
submitDisabled == success \/ isLoading

\* the user fills the three inputs
TypeForm(data) ==
    /\ location = "/change-password"
    /\ ~inputsDisabled
    /\ form # data
    /\ form' = data
    /\ UNCHANGED << mappingVars, errors, success, isLoading, error, request, calls,
                    lastData, timers, location >>

\* handleSubmit(onSubmit): the resolver validates the values; onSubmit runs
\* only without issues, up to its await of the store's changePassword,
\* which sets isLoading and sends the request
SubmitForm ==
    /\ location = "/change-password"
    /\ ~submitDisabled
    /\ calls < MaxSubmits
    /\ LET issues == changePasswordSchema(form)
       IN  /\ errors' = issues
           /\ IF issues # {}
              THEN UNCHANGED << success, isLoading, error, request, calls, lastData >>
              ELSE /\ success' = FALSE
                   /\ error' = null
                   /\ isLoading' = TRUE
                   /\ request' = "pending"
                   /\ calls' = calls + 1
                   /\ lastData' = form
    /\ UNCHANGED << mappingVars, form, timers, location >>

\* mutant of the rejection: the store sets the error but does not rethrow,
\* so that onSubmit goes on as after a success
ChangePasswordRejected_notRethrown ==
    /\ request = "pending"
    /\ request' = "none"
    /\ isLoading' = FALSE
    /\ error' = "message"
    /\ success' = TRUE
    /\ form' = defaultValues
    /\ errors' = {}
    /\ timers' = timers + 1
    /\ UNCHANGED << mappingVars, calls, lastData, location >>

\* authApi.changePassword rejects: the store sets the error and rethrows,
\* onSubmit's catch logs it
ChangePasswordRejected ==
    /\ request = "pending"
    /\ request' = "none"
    /\ isLoading' = FALSE
    /\ error' = "message"
    /\ UNCHANGED << mappingVars, form, errors, success, calls, lastData, timers, location >>

\* authApi.changePassword resolves: the store clears isLoading, onSubmit
\* sets success, resets the form and sets the redirect timer
ChangePasswordResolved ==
    /\ request = "pending"
    /\ request' = "none"
    /\ isLoading' = FALSE
    /\ error' = null
    /\ success' = TRUE
    /\ form' = defaultValues
    /\ errors' = {}
    /\ timers' = timers + 1
    /\ UNCHANGED << mappingVars, calls, lastData, location >>

\* the 2000 ms timer fires: navigate('/dashboard')
RedirectTimer ==
    /\ timers > 0
    /\ timers' = timers - 1
    /\ location' = "/dashboard"
    /\ UNCHANGED << mappingVars, form, errors, success, isLoading, error, request, calls,
                    lastData >>

\* Cancel's onClick: navigate('/dashboard')
CancelClick ==
    /\ location = "/change-password"
    /\ ~cancelDisabled
    /\ location' = "/dashboard"
    /\ UNCHANGED << mappingVars, form, errors, success, isLoading, error, request, calls,
                    lastData, timers >>

\* a string of n characters c
Repeat(c, n) == [i \in 1..n |-> c]

\* new passwords typed: upper-case letters, then lower-case letters, then
\* digits, one short of the minimum length or longer, or nothing
NewPasswords ==
    { EmptyString } \cup
    { Repeat("A", n[1]) \o Repeat("a", n[2]) \o Repeat("1", n[3]) :
        n \in { t \in (0..MaxPwLen) \X (0..MaxPwLen) \X (0..MaxPwLen) :
                  /\ t[1] + t[2] + t[3] >= MinPasswordLength - 1
                  /\ t[1] + t[2] + t[3] <= MaxPwLen } }

\* the forms submitted: the old password empty, another one or the new
\* one; the confirmation empty, the new password or another one
FormInputs ==
    UNION { { [old_password |-> old, new_password |-> new,
               new_password_confirm |-> confirm] :
                old \in { EmptyString, <<"O", "l", "d", "1">>, new },
                confirm \in { EmptyString, new, new \o <<"x">> } } :
            new \in NewPasswords }

\* what the user types over a form already there: the passwords of the
\* tests, matching and not matching
TypedForms ==
    { [old_password |-> <<"O", "l", "d", "1">>,
       new_password |-> Repeat("A", 1) \o Repeat("a", MinPasswordLength - 2) \o Repeat("1", 1),
       new_password_confirm |-> confirm] :
        confirm \in { Repeat("A", 1) \o Repeat("a", MinPasswordLength - 2) \o Repeat("1", 1),
                      <<"x">> } }

PasswordInit ==
    /\ Unmounted
    /\ SessionFresh
    /\ lastOp = "none"
    /\ vMappings = <<>>
    /\ vResult = [valid |-> FALSE, missingRequired |-> <<>>]
    /\ NothingCalled
    /\ form \in FormInputs
    /\ errors = {}
    /\ success = FALSE
    /\ isLoading = FALSE
    /\ error = null
    /\ request = "none"
    /\ calls = 0
    /\ lastData = defaultValues
    /\ timers = 0
    /\ location = "/change-password"

PasswordNext ==
    \/ \E data \in TypedForms : TypeForm(data)
    \/ SubmitForm
    \/ ChangePasswordResolved
    \/ ChangePasswordRejected
    \/ RedirectTimer
    \/ CancelClick

PasswordSpec == PasswordInit /\ [][PasswordNext]_vars

(***************************************************************************)
(* Registration page (pages/Auth/Register.tsx): the password-strength      *)
(* indicator on its own, any password in, score and label out.             *)
(***************************************************************************)
\* the characters [^A-Za-z0-9] does not match
AlphaNumericChars ==
    { UpperCase[i] : i \in 1..Len(UpperCase) }
        \cup { LowerCase[i] : i \in 1..Len(LowerCase) } \cup DigitChars

\* getPasswordStrength(pwd): one point for each of length >= 8,
\* length >= 12, /[A-Z]/, /[a-z]/, /[0-9]/ and /[^A-Za-z0-9]/
getPasswordStrength(pwd) ==
    IF pwd = EmptyString THEN [strength |-> 0, label |-> ""]
    ELSE LET strength ==
                 (IF Len(pwd) >= 8 THEN 1 ELSE 0)
               + (IF Len(pwd) >= 12 THEN 1 ELSE 0)
               + (IF hasCharIn(pwd, { UpperCase[i] : i \in 1..Len(UpperCase) })
                  THEN 1 ELSE 0)
               + (IF hasCharIn(pwd, { LowerCase[i] : i \in 1..Len(LowerCase) })
                  THEN 1 ELSE 0)
               + (IF hasCharIn(pwd, DigitChars) THEN 1 ELSE 0)
               + (IF \E i \in 1..Len(pwd) : pwd[i] \notin AlphaNumericChars
                  THEN 1 ELSE 0)
         IN  IF strength <= 2 THEN [strength |-> strength, label |-> "Débil"]
             ELSE IF strength <= 4 THEN [strength |-> strength, label |-> "Media"]
             ELSE [strength |-> strength, label |-> "Fuerte"]

\* the passwords of the two tests of the indicator
Pass1234 == <<"P", "a", "s", "s", "1", "2", "3", "4">>

MyPassw0rd2024 ==
    <<"M", "y", "P", "@", "s", "s", "w", "0", "r", "d", "!", "2", "0", "2", "4">>

\* passwords typed: upper-case letters, lower-case letters, digits and
\* symbols, up to MaxClassCount of each, and the two passwords of the tests
StrengthInputs ==
    { Repeat("P", n[1]) \o Repeat("a", n[2]) \o Repeat("1", n[3])
          \o Repeat("@", n[4]) :
        n \in (0..MaxClassCount) \X (0..MaxClassCount) \X (0..MaxClassCount)
                  \X (0..MaxClassCount) }
        \cup { Pass1234, MyPassw0rd2024 }

StrengthInit ==
    /\ Unmounted
    /\ PasswordPageFresh
    /\ SessionFresh
    /\ lastOp = "none"
    /\ vMappings = <<>>
    /\ vResult = [valid |-> FALSE, missingRequired |-> <<>>]
    /\ fnArgs \in StrengthInputs
    /\ fnResult = <<>>

Strength ==
    /\ lastOp = "none"
    /\ fnResult' = getPasswordStrength(fnArgs)
    /\ lastOp' = "getPasswordStrength"
    /\ UNCHANGED << componentVars, validatorVars, fnArgs, passwordVars,
                    sessionVars >>

StrengthNext == Strength

StrengthSpec == StrengthInit /\ [][StrengthNext]_vars

(***************************************************************************)
(* Auth store (user, tokens, isAuthenticated, isLoading, error), the       *)
(* items ayni_tokens and ayni_user of local storage, and the HTTP client   *)
(* with its two interceptors.  A request is the axios config of a store    *)
(* call or of getProfile; the store call it belongs to continues in the    *)
(* step in which the client settles it.                                    *)
(***************************************************************************)
\* at most this many requests await an answer at a time
MaxInFlight == 2

\* the users and token pairs the server answers with
Users == { "userA", "userB" }

IssuedTokens == { "pairA", "pairB" }

\* the two tokens of a pair
access(pair) == << "access", pair >>

refresh(pair) == << "refresh", pair >>

\* the store calls that send a request whatever the state, and the calls
\* of the API that are no store calls
StoreCalls == { "login", "register", "changePassword", "updateProfile" }

ApiCalls == { "getProfile" }

\* the answers sent to a request: 200, 401, or another failure
Statuses == { 200, 401, 500 }

\* the data of a successful answer to each call
ResponseData(op) ==
    IF op \in { "login", "register" }
    THEN { [user |-> u, tokens |-> t] : u \in Users, t \in IssuedTokens }
    ELSE IF op \in { "updateProfile", "getProfile" }
    THEN { [user |-> u, tokens |-> null] : u \in Users }
    ELSE { NoData }

\* request interceptor: Authorization from the stored pair, when there is one
requestInterceptor(config, storage) ==
    IF storage.ayni_tokens # NoItem
    THEN [config EXCEPT !.Authorization =
              << "Bearer", access(JSON_parse(storage.ayni_tokens)) >>]
    ELSE config

\* apiClient(config): the request interceptor runs, the request is sent
send(config, storage) ==
    [requestInterceptor(config, storage) EXCEPT !.stage = "sent",
                                                !.sends = config.sends + 1]

\* a plausible slip: the response interceptor without the _retry check
responseInterceptor_noRetryCheck(config, status, storage) ==
    IF status = 401
    THEN IF storage.ayni_tokens # NoItem THEN "refresh" ELSE "reject"
    ELSE "reject"

\* response interceptor, on a failed answer: refresh the tokens when the
\* status is 401, the request is no retry and a pair is stored; reject
\* with the error otherwise
responseInterceptor(config, status, storage) ==
    IF status = 401 /\ ~config.retry
    THEN IF storage.ayni_tokens # NoItem THEN "refresh" ELSE "reject"
    ELSE "reject"

\* a plausible slip: the catch of the refresh keeps the stored user
refreshFailed_keepsUser(storage) ==
    [storage EXCEPT !.ayni_tokens = NoItem]

\* the catch of the refresh: both items removed
refreshFailed(storage) ==
    [storage EXCEPT !.ayni_tokens = NoItem, !.ayni_user = NoItem]

\* after the refresh: the answer stored as ayni_tokens
refreshSucceeded(data, storage) ==
    [storage EXCEPT !.ayni_tokens = JSON_stringify(data)]

\* after the refresh: the request with the new access token
retryConfig(config, data) ==
    [config EXCEPT !.Authorization = << "Bearer", access(data) >>]

\* the requests left when the i-th one is settled
RemoveAt(seq, i) ==
    [k \in 1..(Len(seq) - 1) |-> IF k < i THEN seq[k] ELSE seq[k + 1]]

\* the store calls awaiting an answer when a logout completes
Stale(seq) == [k \in 1..Len(seq) |-> [seq[k] EXCEPT !.stale = TRUE]]

\* login and register after authApi resolved or rejected
loginSettled(fulfilled, data, storage) ==
    IF fulfilled
    THEN /\ localStorage' =
                [storage EXCEPT !.ayni_tokens = JSON_stringify(data.tokens),
                                !.ayni_user = JSON_stringify(data.user)]
         /\ user' = data.user
         /\ tokens' = data.tokens
         /\ isAuthenticated' = TRUE
         /\ isLoading' = FALSE
         /\ error' = null
    ELSE /\ localStorage' = storage
         /\ isLoading' = FALSE
         /\ error' = "message"
         /\ UNCHANGED << user, tokens, isAuthenticated >>

\* a plausible slip: logout clears the state only when the server call
\* succeeded
logoutSettled_onlyOnSuccess(fulfilled, storage) ==
    IF fulfilled
    THEN /\ localStorage' = refreshFailed(storage)
         /\ user' = null
         /\ tokens' = null
         /\ isAuthenticated' = FALSE
         /\ isLoading' = FALSE
         /\ error' = null
    ELSE /\ localStorage' = storage
         /\ isLoading' = FALSE
         /\ error' = "message"
         /\ UNCHANGED << user, tokens, isAuthenticated >>

\* logout's finally, after the server call or without one
logoutSettled(fulfilled, storage) ==
    /\ localStorage' = [storage EXCEPT !.ayni_tokens = NoItem,
                                       !.ayni_user = NoItem]
    /\ user' = null
    /\ tokens' = null
    /\ isAuthenticated' = FALSE
    /\ isLoading' = FALSE
    /\ error' = null

\* changePassword after authApi resolved or rejected
changePasswordSettled(fulfilled, storage) ==
    /\ localStorage' = storage
    /\ isLoading' = FALSE
    /\ error' = IF fulfilled THEN null ELSE "message"
    /\ UNCHANGED << user, tokens, isAuthenticated >>

\* updateProfile after authApi resolved or rejected
updateProfileSettled(fulfilled, data, storage) ==
    IF fulfilled
    THEN /\ localStorage' =
                [storage EXCEPT !.ayni_user = JSON_stringify(data.user)]
         /\ user' = data.user
         /\ isLoading' = FALSE
         /\ error' = null
         /\ UNCHANGED << tokens, isAuthenticated >>
    ELSE /\ localStorage' = storage
         /\ isLoading' = FALSE
         /\ error' = "message"
         /\ UNCHANGED << user, tokens, isAuthenticated >>

\* the client settles the i-th request and the call that awaits it goes
\* on; storage is local storage as the interceptor left it.  The client
\* rejects with the error of the answer or, from the catch of the refresh,
\* with the refresh error; logout resolves whatever the answer, the other
\* calls pass a rejection on.
Settle(i, kind, status, fulfilled, data, storage) ==
    LET config == pending[i]
    IN  /\ \/ /\ config.op \in { "login", "register" }
              /\ loginSettled(fulfilled, data, storage)
           \/ /\ config.op = "logout"
              /\ logoutSettled(fulfilled, storage)
           \/ /\ config.op = "changePassword"
              /\ changePasswordSettled(fulfilled, storage)
           \/ /\ config.op = "updateProfile"
              /\ updateProfileSettled(fulfilled, data, storage)
           \/ /\ config.op \in ApiCalls
              /\ localStorage' = storage
              /\ UNCHANGED << user, tokens, isAuthenticated, isLoading, error >>
        /\ pending' = IF config.op = "logout" THEN Stale(RemoveAt(pending, i))
                      ELSE RemoveAt(pending, i)
        /\ lastEvent' =
               [kind |-> kind, request |-> config, status |-> status,
                data |-> data,
                result |-> IF fulfilled THEN "fulfilled" ELSE "rejected",
                reason |-> IF fulfilled THEN "none"
                           ELSE IF kind = "refresh" THEN "refreshError"
                           ELSE "error",
                call |-> IF fulfilled \/ config.op = "logout"
                         THEN "resolved" ELSE "rejected"]

\* what no step of store and client touches
pageVars == << form, errors, success, request, calls, lastData, timers >>

\* login, register, changePassword or updateProfile is called: the store
\* sets isLoading and the request is sent
Begin(op) ==
    /\ Len(pending) < MaxInFlight
    /\ isLoading' = TRUE
    /\ error' = null
    /\ pending' = Append(pending,
                         send([NoRequest EXCEPT !.op = op], localStorage))
    /\ lastEvent' = [NoEvent EXCEPT !.kind = "begin", !.request = pending'[Len(pending')],
                                    !.result = "pending"]
    /\ UNCHANGED << user, tokens, isAuthenticated, localStorage, location,
                    pageVars, mappingVarsButSession >>

\* getProfile is called
Request(op) ==
    /\ Len(pending) < MaxInFlight
    /\ pending' = Append(pending,
                         send([NoRequest EXCEPT !.op = op], localStorage))
    /\ lastEvent' = [NoEvent EXCEPT !.kind = "begin", !.request = pending'[Len(pending')],
                                    !.result = "pending"]
    /\ UNCHANGED << user, tokens, isAuthenticated, isLoading, error,
                    localStorage, location, pageVars, mappingVarsButSession >>

\* logout is called: with a refresh token held the server call is sent,
\* without one logout runs to its end at once
Logout ==
    /\ Len(pending) < MaxInFlight
    /\ IF tokens # null
       THEN /\ isLoading' = TRUE
            /\ error' = null
            /\ pending' = Append(pending,
                                 send([NoRequest EXCEPT !.op = "logout",
                                                        !.body = refresh(tokens)],
                                      localStorage))
            /\ lastEvent' = [NoEvent EXCEPT !.kind = "begin",
                                            !.request = pending'[Len(pending')],
                                            !.result = "pending"]
            /\ UNCHANGED << user, tokens, isAuthenticated, localStorage >>
       ELSE /\ logoutSettled(TRUE, localStorage)
            /\ pending' = Stale(pending)
            /\ lastEvent' = [NoEvent EXCEPT !.kind = "skipped",
                                            !.request = [NoRequest EXCEPT !.op = "logout"],
                                            !.call = "resolved"]
    /\ UNCHANGED << location, pageVars, mappingVarsButSession >>

\* the server answers the i-th request: a success settles it, a failure
\* goes through the response interceptor, which sets _retry and either
\* posts the refresh or rejects
ServerResponds(i, status, data) ==
    /\ i \in 1..Len(pending)
    /\ pending[i].stage = "sent"
    /\ data \in (IF status = 200 THEN ResponseData(pending[i].op) ELSE { NoData })
    /\ IF status = 200
       THEN Settle(i, "response", status, TRUE, data, localStorage)
       ELSE IF responseInterceptor(pending[i], status, localStorage) = "refresh"
       THEN /\ pending' = [pending EXCEPT ![i].retry = TRUE,
                                          ![i].stage = "refreshing"]
            /\ lastEvent' = [NoEvent EXCEPT !.kind = "response",
                                            !.request = pending[i],
                                            !.status = status,
                                            !.result = "refreshing"]
            /\ UNCHANGED << user, tokens, isAuthenticated, isLoading, error,
                            localStorage >>
       ELSE Settle(i, "response", status, FALSE, data, localStorage)
    /\ UNCHANGED << location, pageVars, mappingVarsButSession >>

\* the refresh is answered with a new pair: the pair is stored and the
\* request sent again with its access token
RefreshResolved(i, data) ==
    /\ i \in 1..Len(pending)
    /\ pending[i].stage = "refreshing"
    /\ localStorage' = refreshSucceeded(data, localStorage)
    /\ pending' = [pending EXCEPT ![i] = send(retryConfig(pending[i], data),
                                              localStorage')]
    /\ lastEvent' = [NoEvent EXCEPT !.kind = "refresh",
                                    !.request = pending[i],
                                    !.status = 200,
                                    !.data = [user |-> null, tokens |-> data],
                                    !.result = "retried"]
    /\ UNCHANGED << user, tokens, isAuthenticated, isLoading, error, location,
                    pageVars, mappingVarsButSession >>

\* the refresh fails: both items removed, redirect to /login, the request
\* rejected with the refresh error
RefreshRejected(i) ==
    /\ i \in 1..Len(pending)
    /\ pending[i].stage = "refreshing"
    /\ location' = "/login"
    /\ Settle(i, "refresh", 401, FALSE, NoData, refreshFailed(localStorage))
    /\ UNCHANGED << pageVars, mappingVarsButSession >>

\* a plausible slip: initializeAuth restores when either item is stored
initializeAuth_eitherItem ==
    /\ IF localStorage.ayni_tokens # NoItem \/ localStorage.ayni_user # NoItem
       THEN /\ user' = IF localStorage.ayni_user # NoItem
                       THEN JSON_parse(localStorage.ayni_user) ELSE null
            /\ tokens' = IF localStorage.ayni_tokens # NoItem
                         THEN JSON_parse(localStorage.ayni_tokens) ELSE null
            /\ isAuthenticated' = TRUE
       ELSE UNCHANGED << user, tokens, isAuthenticated >>
    /\ lastEvent' = [NoEvent EXCEPT !.kind = "initializeAuth"]
    /\ UNCHANGED << isLoading, error, localStorage, pending, location,
                    pageVars, mappingVarsButSession >>

\* initializeAuth: user and tokens restored from the two items, when both
\* are stored (the items hold what JSON.stringify wrote, so JSON.parse
\* does not throw)
initializeAuth ==
    /\ IF localStorage.ayni_tokens # NoItem /\ localStorage.ayni_user # NoItem
       THEN /\ user' = JSON_parse(localStorage.ayni_user)
            /\ tokens' = JSON_parse(localStorage.ayni_tokens)
            /\ isAuthenticated' = TRUE
       ELSE UNCHANGED << user, tokens, isAuthenticated >>
    /\ lastEvent' = [NoEvent EXCEPT !.kind = "initializeAuth"]
    /\ UNCHANGED << isLoading, error, localStorage, pending, location,
                    pageVars, mappingVarsButSession >>

clearError ==
    /\ error # null
    /\ error' = null
    /\ lastEvent' = [NoEvent EXCEPT !.kind = "clearError"]
    /\ UNCHANGED << user, tokens, isAuthenticated, isLoading, localStorage,
                    pending, location, pageVars, mappingVarsButSession >>

\* the page is loaded again: the store is created anew, user, tokens and
\* isAuthenticated as persisted, and what awaited an answer is gone (a
\* reload that finds nothing to drop is no step)
Reload ==
    /\ pending # <<>> \/ isLoading \/ error # null
    /\ pending' = <<>>
    /\ isLoading' = FALSE
    /\ error' = null
    /\ lastEvent' = [NoEvent EXCEPT !.kind = "reload"]
    /\ UNCHANGED << user, tokens, isAuthenticated, localStorage, location,
                    pageVars, mappingVarsButSession >>

AuthInit ==
    /\ Unmounted
    /\ SessionFresh
    /\ lastOp = "none"
    /\ vMappings = <<>>
    /\ vResult = [valid |-> FALSE, missingRequired |-> <<>>]
    /\ NothingCalled
    /\ form = defaultValues
    /\ errors = {}
    /\ success = FALSE
    /\ isLoading = FALSE
    /\ error = null
    /\ request = "none"
    /\ calls = 0
    /\ lastData = defaultValues
    /\ timers = 0
    /\ location = "/dashboard"

AuthNext ==
    \/ \E op \in StoreCalls : Begin(op)
    \/ \E op \in ApiCalls : Request(op)
    \/ Logout
    \/ \E i \in 1..Len(pending), status \in Statuses :
          \E data \in ResponseData(pending[i].op) \cup { NoData } :
              ServerResponds(i, status, data)
    \/ \E i \in 1..Len(pending), data \in IssuedTokens : RefreshResolved(i, data)
    \/ \E i \in 1..Len(pending) : RefreshRejected(i)
    \/ initializeAuth
    \/ clearError
    \/ Reload

AuthSpec == AuthInit /\ [][AuthNext]_vars

\* store and client used by one caller that awaits each call before the
\* next one
SessionNext ==
    \/ \E op \in StoreCalls : pending = <<>> /\ Begin(op)
    \/ \E op \in ApiCalls : pending = <<>> /\ Request(op)
    \/ pending = <<>> /\ Logout
    \/ \E i \in 1..Len(pending), status \in Statuses :
          \E data \in ResponseData(pending[i].op) \cup { NoData } :
              ServerResponds(i, status, data)
    \/ \E i \in 1..Len(pending), data \in IssuedTokens : RefreshResolved(i, data)
    \/ \E i \in 1..Len(pending) : RefreshRejected(i)
    \/ initializeAuth
    \/ clearError
    \/ Reload

SessionSpec == AuthInit /\ [][SessionNext]_vars

(***************************************************************************)
(* Login page (pages/Auth/Login.tsx) on the auth store's login.  The form  *)
(* values are sequences of one-character strings, so that the schema's     *)
(* length and e-mail checks are computed.                                  *)
(***************************************************************************)
\* longest e-mail address typed into the login form
MaxEmailLen == 6

Letters ==
    { UpperCase[i] : i \in 1..Len(UpperCase) }
        \cup { LowerCase[i] : i \in 1..Len(LowerCase) }

\* z.string().email(): one "@"; before it characters of [A-Z0-9_'+\-\.]
\* ending in one of [A-Z0-9_+-]; after it labels [A-Z0-9][A-Z0-9\-]*
\* each followed by a dot, then at least two letters; no dot first and no
\* two dots in a row; case-insensitive
isEmail(s) ==
    LET ats == { i \in 1..Len(s) : s[i] = "@" }
    IN  /\ Cardinality(ats) = 1
        /\ LET at == CHOOSE i \in ats : TRUE
               local == SubSeq(s, 1, at - 1)
               domain == SubSeq(s, at + 1, Len(s))
               dots == { i \in 1..Len(domain) : domain[i] = "." }
           IN  /\ s[1] # "."
               /\ \A i \in 1..(Len(s) - 1) : ~(s[i] = "." /\ s[i + 1] = ".")
               /\ Len(local) >= 1
               /\ \A i \in 1..(Len(local) - 1) :
                      local[i] \in AlphaNumericChars \cup { "_", "'", "+", "-", "." }
               /\ local[Len(local)] \in AlphaNumericChars \cup { "_", "+", "-" }
               /\ dots # {}
               /\ LET lastDot == CHOOSE i \in dots : \A j \in dots : j <= i
                  IN  /\ Len(domain) - lastDot >= 2
                      /\ \A i \in (lastDot + 1)..Len(domain) : domain[i] \in Letters
                      /\ domain[1] \in AlphaNumericChars
                      /\ \A i \in 1..lastDot :
                             domain[i] \in AlphaNumericChars \cup { "-", "." }
                      /\ \A i \in dots : i < lastDot => domain[i + 1] \in AlphaNumericChars

\* loginSchema.safeParse(data): the issues; none when data is valid
loginSchema(data) ==
    (IF Len(data.email) < 1 THEN { "email: requerido" } ELSE {})
    \cup (IF ~isEmail(data.email) THEN { "email: formato invalido" } ELSE {})
    \cup (IF Len(data.password) < 1 THEN { "password: requerida" } ELSE {})
    \cup (IF Len(data.password) < 6
          THEN { "password: al menos 6 caracteres" } ELSE {})

loginDefaultValues == [email |-> EmptyString, password |-> EmptyString]

\* what no operation of the login page touches
loginFrame == << mappingVarsButSession, pending, lastEvent, success, timers >>

\* the effect of lines 55-59 with isAuthenticated true: navigate to
\* /dashboard; the page unmounts and its cleanup clears the store's error
LoginRedirectEffect ==
    /\ location = "/login"
    /\ isAuthenticated
    /\ location' = "/dashboard"
    /\ error' = null
    /\ UNCHANGED << loginFrame, form, errors, isLoading, request, calls, lastData,
                    user, tokens, isAuthenticated, localStorage >>

\* the user fills the two inputs
TypeLogin(data) ==
    /\ location = "/login"
    /\ ~isAuthenticated
    /\ ~isLoading
    /\ form # data
    /\ form' = data
    /\ UNCHANGED << loginFrame, errors, isLoading, error, request, calls, lastData,
                    location, user, tokens, isAuthenticated, localStorage >>

\* handleSubmit(onSubmit): the resolver validates the values; onSubmit runs
\* only without issues, up to its await of the store's login, which sets
\* isLoading and calls authApi.login
SubmitLogin ==
    /\ location = "/login"
    /\ ~isAuthenticated
    /\ ~isLoading
    /\ calls < MaxSubmits
    /\ LET issues == loginSchema(form)
       IN  /\ errors' = issues
           /\ IF issues # {}
              THEN UNCHANGED << isLoading, error, request, calls, lastData >>
              ELSE /\ error' = null
                   /\ isLoading' = TRUE
                   /\ request' = "pending"
                   /\ calls' = calls + 1
                   /\ lastData' = form
    /\ UNCHANGED << loginFrame, form, location, user, tokens, isAuthenticated,
                    localStorage >>

\* authApi.login resolves: the store keeps user and tokens, onSubmit goes
\* on to navigate('/dashboard'), and so does the effect
LoginResolved(data) ==
    /\ location = "/login"
    /\ request = "pending"
    /\ request' = "none"
    /\ loginSettled(TRUE, data, localStorage)
    /\ location' = "/dashboard"
    /\ UNCHANGED << loginFrame, form, errors, calls, lastData >>

\* a plausible slip: onSubmit navigates after the catch as well
LoginRejected_navigates ==
    /\ location = "/login"
    /\ request = "pending"
    /\ request' = "none"
    /\ loginSettled(FALSE, NoData, localStorage)
    /\ location' = "/dashboard"
    /\ UNCHANGED << loginFrame, form, errors, calls, lastData >>

\* authApi.login rejects: the store sets the error and rethrows, onSubmit's
\* catch logs it
LoginRejected ==
    /\ location = "/login"
    /\ request = "pending"
    /\ request' = "none"
    /\ loginSettled(FALSE, NoData, localStorage)
    /\ UNCHANGED << loginFrame, form, errors, calls, lastData, location >>

\* the characters of the addresses typed
EmailChars == { "a", "@", "." }

\* the forms submitted: any address over EmailChars up to MaxEmailLen
\* characters, a password of up to MaxPwLen characters
LoginForms ==
    { [email |-> e, password |-> Repeat("p", n)] :
        e \in SeqsUpTo(EmailChars, MaxEmailLen), n \in 0..MaxPwLen }

\* what the user types over a form already there: the values of the tests
TypedLogins ==
    { [email |-> << "t", "e", "s", "t", "@", "e", "x", "a", "m", "p", "l", "e",
                    ".", "c", "o", "m" >>,
       password |-> << "p", "a", "s", "s", "w", "o", "r", "d", "1", "2", "3" >>] }

\* the page rendered on a store that is fresh or holds a persisted session
LoginInit ==
    /\ Unmounted
    /\ lastOp = "none"
    /\ vMappings = <<>>
    /\ vResult = [valid |-> FALSE, missingRequired |-> <<>>]
    /\ NothingCalled
    /\ form \in LoginForms
    /\ errors = {}
    /\ success = FALSE
    /\ isLoading = FALSE
    /\ error = null
    /\ request = "none"
    /\ calls = 0
    /\ lastData = loginDefaultValues
    /\ timers = 0
    /\ location = "/login"
    /\ pending = <<>>
    /\ lastEvent = NoEvent
    /\ \/ /\ user = null
          /\ tokens = null
          /\ isAuthenticated = FALSE
          /\ localStorage = EmptyStorage
       \/ /\ user = "userA"
          /\ tokens = "pairA"
          /\ isAuthenticated = TRUE
          /\ localStorage = [ayni_tokens |-> JSON_stringify("pairA"),
                             ayni_user |-> JSON_stringify("userA")]
          /\ form = loginDefaultValues

LoginNext ==
    \/ LoginRedirectEffect
    \/ \E data \in TypedLogins : TypeLogin(data)
    \/ SubmitLogin
    \/ \E data \in ResponseData("login") : LoginResolved(data)
    \/ LoginRejected

LoginSpec == LoginInit /\ [][LoginNext]_vars

(***************************************************************************)
(* Properties.                                                             *)
(***************************************************************************)
\* the five required system columns, in registry order, as the
\* specification lists them
RequiredIds ==
    << "in_dt", "in_trans_id", "in_product_id", "in_quantity", "in_price_total" >>

IsTargetOfSome(ms, col) ==
    \E i \in 1..Len(ms) : ms[i].systemColumn # null /\ ms[i].systemColumn = col

PositionIn(seq, x) == CHOOSE i \in 1..Len(seq) : seq[i] = x

Range(seq) == { seq[i] : i \in 1..Len(seq) }

InitializationDone == Quiescent /\ lastOp = "init"

\* C1: validateMappings(m).valid is true if and only if each of the five
\* required system columns is the non-null target of at least one mapping
\* of m; five columns mapped to the five required ids give valid = true and
\* missingRequired = [].
C1_ValidIffAllRequiredMapped ==
    lastOp = "validate" =>
        /\ vResult.valid <=>
              \A k \in 1..Len(RequiredIds) : IsTargetOfSome(vMappings, RequiredIds[k])
        /\ ( /\ Len(vMappings) = Len(RequiredIds)
             /\ \A k \in 1..Len(RequiredIds) :
                    vMappings[k].systemColumn = RequiredIds[k] )
              => vResult = [valid |-> TRUE, missingRequired |-> <<>>]

\* C1 witness: five source columns mapped to the five required ids, one
\* each, have been validated and found valid.
C1_Witness ==
    /\ lastOp = "validate"
    /\ Len(vMappings) = 5
    /\ \A k \in 1..5 : vMappings[k].systemColumn = RequiredIds[k]
    /\ vResult.valid

\* C2: missingRequired is exactly the required columns that are the target
\* of no mapping, each once, in registry order; when no source column is
\* mapped it is all five required ids in that order and valid is false.
C2_MissingRequiredInRegistryOrder ==
    lastOp = "validate" =>
        LET missing == vResult.missingRequired
        IN  /\ Range(missing) =
                  { r \in Range(RequiredIds) : ~IsTargetOfSome(vMappings, r) }
            /\ \A i, j \in 1..Len(missing) :
                  i < j => PositionIn(RequiredIds, missing[i])
                              < PositionIn(RequiredIds, missing[j])
            /\ (\A i \in 1..Len(vMappings) : vMappings[i].systemColumn = null)
                  => (missing = RequiredIds /\ ~vResult.valid)

\* C2 witness: two source columns, neither mapped, have been validated and
\* all five required ids are reported missing in registry order.
C2_Witness ==
    /\ lastOp = "validate"
    /\ Len(vMappings) = 2
    /\ \A i \in 1..2 : vMappings[i].systemColumn = null
    /\ vResult.missingRequired = RequiredIds
    /\ ~vResult.valid

\* C3: from the initialized mapping state on, after any setMapping (of an
\* enabled target) and removeMapping actions, no two mapping entries have
\* the same non-null system column.
C3_NoSystemColumnMappedTwice ==
    (phase = "mounted" /\ (InitializationDone \/ lastOp \in { "setMapping", "removeMapping" }))
        => \A i, j \in 1..Len(mappings) :
              (i # j /\ mappings[i].systemColumn \in SystemColumn)
                  => mappings[i].systemColumn # mappings[j].systemColumn

\* C4: removeMapping for system column X yields a state in which no mapping
\* entry has target X; when no entry has target X the state is unchanged.
C4_RemoveMappingClearsTarget ==
    [][ \A X \in SystemColumn :
          /\ RemoveMapping(X) => ~isSystemColumnMapped(mappings', X)
          /\ ~isSystemColumnMapped(mappings, X) => removeMapping(mappings, X) = mappings
      ]_vars

\* C5: initialize uses the caller's seed verbatim when a seed is provided
\* and non-empty; in every other case (seed absent, or provided but empty)
\* the mapping set holds, for each source column, the suggestion
\* resolver's result for that column.
C5_InitializeSeedOrSuggestions ==
    InitializationDone =>
        mappings = IF initialMappings.given /\ Len(initialMappings.value) > 0
                   THEN initialMappings.value
                   ELSE suggestedMappings(csvColumns)

\* C6: the mapping sequence produced by initialize has the length of the
\* source-column sequence and its i-th entry is for the i-th column; when
\* it is produced from the columns and no column's normalized name is in
\* the synonym table, every entry has target none.
C6_InitializeKeepsOrderAndLength ==
    InitializationDone =>
        /\ Len(mappings) = Len(csvColumns)
        /\ \A i \in 1..Len(mappings) : mappings[i].csvColumn = csvColumns[i]
        /\ ( /\ ~(initialMappings.given /\ Len(initialMappings.value) > 0)
             /\ \A i \in 1..Len(csvColumns) :
                    \A e \in suggestions : e.key # normalize(csvColumns[i]) )
              => \A i \in 1..Len(mappings) : mappings[i].systemColumn = null

\* C7: in every reachable mapping state there is exactly one mapping entry
\* per distinct source column presented to the component, in input order,
\* also when the input repeats a column name.
C7_OneEntryPerDistinctColumn ==
    phase = "mounted" =>
        /\ \A name \in Range(csvColumns) :
              Cardinality({ i \in 1..Len(mappings) : mappings[i].csvColumn = name }) = 1
        /\ \A i \in 1..Len(mappings) : mappings[i].csvColumn \in Range(csvColumns)
        /\ \A i, j \in 1..Len(mappings) :
              i < j => \E k, l \in 1..Len(csvColumns) :
                          /\ k < l
                          /\ csvColumns[k] = mappings[i].csvColumn
                          /\ csvColumns[l] = mappings[j].csvColumn

\* C8: once the mapping set has been created, its contents change only
\* through a setMapping or removeMapping action: a re-render by the host,
\* a re-supplied column list or new callback identities do not alter it.
C8_OnlyExplicitActionsChangeMappings ==
    [][ (phase = "mounted" /\ mappings' # mappings)
            => lastOp' \in { "init", "setMapping", "removeMapping" } ]_vars

\* C9: for every state transition (initialization, setMapping,
\* removeMapping) the caller receives exactly one mapping notification,
\* carrying the mapping sequence as it is after the transition, and exactly
\* one validity notification carrying that state's valid flag.
C9_OneNotificationPerTransition ==
    (Quiescent /\ lastOp \in { "init", "setMapping", "removeMapping" }) =>
        /\ mapCalls = 1
        /\ lastMapArg = mappings
        /\ onValidationChange # undefined =>
              /\ validCalls = 1
              /\ lastValidArg = validateMappings(mappings).valid

\* C10: when a notification callback throws, the failure is not
\* propagated, the transition stays committed, and the other notification
\* of the transition is still delivered.
C10_CallbackFailureContained ==
    thrownBy # "none" =>
        /\ phase = "mounted"
        /\ mapCalls >= 1
        /\ onValidationChange # undefined => validCalls >= 1


\* C18: when the mapping-change callback the caller supplies is absent or
\* not a function (null), initialization and every later transition
\* complete without raising: no TypeError is thrown and the component
\* stays mounted.
C18_NullCallbackDoesNotRaise ==
    (phase # "unmounted" /\ onMappingChange = null)
        => (thrownBy # "TypeError" /\ (thrownBy = "none" => phase = "mounted"))


\* C11: when a notification callback fired for a transition itself calls
\* setMapping(c, v), the transition is already committed and the
\* re-entrant update is applied on top of it: it is not lost, c has target
\* v in the state the component ends in, with the same entries in the
\* same order.
C11_ReentrantSetMappingNotLost ==
    [][ \A c \in NamePool, v \in PickedColumns \cup { null } :
          FlushEffectsReentrant(c, v) =>
              /\ Len(mappings') = Len(mappings)
              /\ \A i \in 1..Len(mappings') :
                    /\ mappings'[i].csvColumn = mappings[i].csvColumn
                    /\ mappings'[i].csvColumn = c => mappings'[i].systemColumn = v
      ]_vars

\* the targets of a mapping sequence, in order
Targets(ms) == [i \in 1..Len(ms) |-> ms[i].systemColumn]

ScenarioAInitialized ==
    InitializationDone /\ csvColumns = ScenarioA /\ ~initialMappings.given

\* C12, as the code has it: for the input ["fecha", "id_transaccion",
\* "producto", "cantidad", "precio_total", "cliente"] with no seed,
\* initialization maps "fecha" to in_dt, "id_transaccion" to in_trans_id,
\* "producto" to in_product_id, "cantidad" to in_quantity and "cliente" to
\* in_customer_id, and leaves "precio_total" with target none.
C12_ScenarioAExactSynonyms ==
    ScenarioAInitialized =>
        Targets(mappings) = << "in_dt", "in_trans_id", "in_product_id",
                               "in_quantity", null, "in_customer_id" >>

\* C12 witness: the component mounted on that input without seed has
\* finished initializing, "id_transaccion" mapped to in_trans_id.
C12_Witness ==
    /\ ScenarioAInitialized
    /\ mappings[2] = [csvColumn |-> ScenarioA[2], systemColumn |-> "in_trans_id"]

\* C12, as stated: for that input with no seed, initialization maps "fecha"
\* to in_dt, "cantidad" to in_quantity, "precio_total" to in_price_total
\* and "cliente" to in_customer_id, and leaves "id_transaccion" and
\* "producto" with target none.
C12_ScenarioAAsStated ==
    ScenarioAInitialized =>
        Targets(mappings) = << "in_dt", null, null, "in_quantity",
                               "in_price_total", "in_customer_id" >>

\* the names every name handed to suggestMapping is compared with, with
\* their normalized forms and suggestions
ComparedNames == SeqsUpTo(NameChars, MaxNameLen - 1) \cup NamePool

ComparedSuggestions ==
    { [normalized |-> normalize(t), suggested |-> suggestMapping(t)] :
        t \in ComparedNames }

\* C13: normalization is idempotent, normalize(normalize(s)) =
\* normalize(s); suggest is a function of the normalized name: suggest(s)
\* = suggest(normalize(s)), and a name with the same normalized form as s
\* (differing only in case and separators) gets the suggestion of s.
C13_NormalizeIdempotentSuggestByNormalForm ==
    lastOp = "suggest" =>
        LET normalized == normalize(fnArgs)
        IN  /\ normalize(normalized) = normalized
            /\ fnResult = suggestMapping(normalized)
            /\ \A e \in ComparedSuggestions :
                  e.normalized = normalized => e.suggested = fnResult

\* C13 witness: a name with an upper-case letter and a separator whose
\* normalized form is the synonym "qty" has got the suggestion in_quantity.
C13_Witness ==
    /\ lastOp = "suggest"
    /\ Len(fnArgs) > Len(normalize(fnArgs))
    /\ fnArgs # toLowerCase(fnArgs)
    /\ normalize(fnArgs) = <<"q", "t", "y">>
    /\ fnResult = "in_quantity"

\* C14: for every source column name, also one that is a reserved
\* identifier of the lookup structure, suggest returns one of the 17
\* system columns or none, and none when the normalized name is no key of
\* the synonym table.
C14_SuggestReturnsSystemColumnOrNone ==
    lastOp = "suggest" =>
        /\ fnResult \in SystemColumn \cup { null }
        /\ (\A e \in suggestions : e.key # normalize(fnArgs)) => fnResult = null


\* the six inferable system columns, in registry order
InferableIds ==
    << "in_cost_unit", "in_cost_total", "in_price_unit", "in_discount_total",
       "in_commission_total", "in_margin" >>

\* C15: the schema registry is a fixed partition: at every render
\* getRequiredColumns gives the same 5 columns and getInferableColumns the
\* same 6, in the same order; every inferable column is optional;
\* required and optional are disjoint and together are the 17 system
\* columns.
C15_RegistryFixedPartition ==
    lastOp = "render" =>
        LET required == fnResult.requiredColumns
            optional == fnResult.optionalColumns
            inferable == fnResult.inferableColumns
        IN  /\ Len(required) = 5 /\ required = RequiredIds
            /\ Len(inferable) = 6 /\ inferable = InferableIds
            /\ Range(inferable) \subseteq Range(optional)
            /\ Range(required) \cap Range(optional) = {}
            /\ Range(required) \cup Range(optional) = SystemColumn
            /\ Cardinality(SystemColumn) = 17
            /\ Len(required) + Len(optional) = 17

\* C15 witness: the <select> of a source column has been rendered for a
\* state of two entries, with 5 required and 6 inferable options.
C15_Witness ==
    /\ lastOp = "render"
    /\ Len(fnArgs.mappings) = 2
    /\ Len(fnResult.requiredColumns) = 5
    /\ Len(fnResult.inferableColumns) = 6

\* C16: in every reachable state, for every source column c and system
\* column X, X is an enabled option of c's <select> if and only if no
\* mapping entry other than c's own has target X; the target c holds is
\* always enabled for c.  (Stated for the states with one entry per
\* source column.)
C16_EnabledIffNotClaimedByOther ==
    ( /\ phase = "mounted"
      /\ \A i, j \in 1..Len(mappings) :
            i # j => mappings[i].csvColumn # mappings[j].csvColumn )
      =>
        \A c \in Range(csvColumns), X \in SystemColumn :
            /\ ~optionDisabled(mappings, c, X)
                  <=> ~\E i \in 1..Len(mappings) :
                          /\ mappings[i].csvColumn # c
                          /\ mappings[i].systemColumn = X
            /\ currentTarget(mappings, c) = X => ~optionDisabled(mappings, c, X)

\* C17: setMapping(state, c, t) yields a state in which the entry for
\* source column c has target t and every other entry, the number of
\* entries and their order are unchanged; no uniqueness check is made:
\* when t is already the target of another source column the result holds
\* t twice.
C17_SetMappingFrame ==
    lastOp = "handleMappingChange" =>
        LET prev == fnArgs.mappings
            c == fnArgs.csvColumn
            t == fnArgs.systemColumn
        IN  /\ Len(fnResult) = Len(prev)
            /\ \A i \in 1..Len(prev) :
                  IF prev[i].csvColumn = c
                  THEN fnResult[i] = [csvColumn |-> c, systemColumn |-> t]
                  ELSE fnResult[i] = prev[i]
            /\ ( /\ t # null
                 /\ \E i \in 1..Len(prev) : prev[i].csvColumn = c
                 /\ \E j \in 1..Len(prev) :
                        prev[j].csvColumn # c /\ prev[j].systemColumn = t )
                  => \E i, j \in 1..Len(fnResult) :
                        /\ fnResult[i].csvColumn # fnResult[j].csvColumn
                        /\ fnResult[i].systemColumn = t
                        /\ fnResult[j].systemColumn = t

\* C17 witness: "date" has been given the target in_dt that "Fecha"
\* already holds, and both entries now have target in_dt.
C17_Witness ==
    /\ lastOp = "handleMappingChange"
    /\ fnArgs.mappings =
          << [csvColumn |-> <<"d", "a", "t", "e">>, systemColumn |-> null],
             [csvColumn |-> <<"F", "e", "c", "h", "a">>, systemColumn |-> "in_dt"] >>
    /\ fnArgs.csvColumn = <<"d", "a", "t", "e">>
    /\ fnArgs.systemColumn = "in_dt"
    /\ fnResult[1].systemColumn = "in_dt"
    /\ fnResult[2].systemColumn = "in_dt"


\* C19: in the change-password flow success is entered and the redirect to
\* /dashboard scheduled if and only if the store's changePassword
\* resolved; once success is set the three inputs, Cancel and Submit stay
\* disabled and no second submission starts before the redirect; when
\* changePassword rejects, success stays false and no redirect is
\* scheduled.
C19_SuccessAndRedirectIffResolved ==
    [][ /\ ChangePasswordResolved => (success' /\ timers' = timers + 1)
        /\ ((success' /\ ~success) \/ timers' > timers) => ChangePasswordResolved
        /\ ChangePasswordRejected => (~success /\ ~success' /\ timers' = timers)
        /\ (success /\ location = "/change-password")
              => /\ inputsDisabled /\ cancelDisabled /\ submitDisabled
                 /\ success'
                 /\ calls' = calls /\ request' = "none"
                 /\ location' # location => RedirectTimer
      ]_vars

\* C19 witness: a first changePassword was rejected, a second one resolved:
\* success is set, one redirect is scheduled and the page is still shown.
C19_Witness ==
    /\ calls = 2
    /\ success
    /\ timers = 1
    /\ location = "/change-password"
    /\ inputsDisabled /\ cancelDisabled /\ submitDisabled

\* the conditions on the submitted values, as the claim C20 words them
StatedConditions(data) ==
    /\ data.old_password # EmptyString
    /\ Len(data.new_password) >= 8
    /\ \E i \in 1..Len(data.new_password) :
          \E k \in 1..Len(UpperCase) : data.new_password[i] = UpperCase[k]
    /\ \E i \in 1..Len(data.new_password) :
          \E k \in 1..Len(LowerCase) : data.new_password[i] = LowerCase[k]
    /\ \E i \in 1..Len(data.new_password) :
          data.new_password[i] \in { "0", "1", "2", "3", "4", "5", "6", "7", "8", "9" }
    /\ data.new_password # data.old_password
    /\ data.new_password_confirm = data.new_password

\* C20: the store's changePassword is called only with an old password
\* that is not empty, a new password of at least 8 characters with an
\* upper-case letter, a lower-case letter and a digit, different from the
\* old one, and a confirmation equal to the new password; a submit of a
\* form that fails one of these calls nothing.
C20_StoreCalledOnlyWithValidForm ==
    [][ /\ (calls' # calls \/ (request' = "pending" /\ request # "pending"))
              => (StatedConditions(form) /\ lastData' = form /\ calls' = calls + 1)
        /\ (SubmitForm /\ ~StatedConditions(form))
              => (calls' = calls /\ request' = request /\ isLoading' = isLoading)
      ]_vars

\* C20 witness: the store has been called with a new password of exactly
\* 8 characters.
C20_Witness ==
    /\ calls = 1
    /\ request = "pending"
    /\ Len(lastData.new_password) = 8
    /\ lastData.new_password_confirm = lastData.new_password

\* a password that meets only the minimum requirements, as the claim C22
\* words them: 8 to 11 characters with an upper-case letter, a lower-case
\* letter and a digit, no symbol
MeetsOnlyMinimum(pwd) ==
    /\ Len(pwd) >= 8 /\ Len(pwd) <= 11
    /\ \E i \in 1..Len(pwd) : \E k \in 1..Len(UpperCase) : pwd[i] = UpperCase[k]
    /\ \E i \in 1..Len(pwd) : \E k \in 1..Len(LowerCase) : pwd[i] = LowerCase[k]
    /\ \E i \in 1..Len(pwd) : pwd[i] \in DigitChars
    /\ \A i \in 1..Len(pwd) : pwd[i] \in AlphaNumericChars

\* a password that satisfies all six criteria
MeetsAllSix(pwd) ==
    /\ Len(pwd) >= 12
    /\ \E i \in 1..Len(pwd) : \E k \in 1..Len(UpperCase) : pwd[i] = UpperCase[k]
    /\ \E i \in 1..Len(pwd) : \E k \in 1..Len(LowerCase) : pwd[i] = LowerCase[k]
    /\ \E i \in 1..Len(pwd) : pwd[i] \in DigitChars
    /\ \E i \in 1..Len(pwd) : pwd[i] \notin AlphaNumericChars

\* C22: the password-strength indicator labels 'Débil' every password that
\* meets only the minimum requirements (8 to 11 characters, upper-case,
\* lower-case, digit, no symbol, like 'Pass1234'), labels 'Fuerte' a
\* password that satisfies all six criteria, and the score is an integer
\* between 0 and 6.
C22_StrengthLabels ==
    lastOp = "getPasswordStrength" =>
        /\ MeetsOnlyMinimum(fnArgs) => fnResult.label = "Débil"
        /\ MeetsAllSix(fnArgs) => fnResult.label = "Fuerte"
        /\ fnResult.strength \in 0..6

\* C23: in every notification round the boolean delivered to the validity
\* callback equals validateMappings(m).valid for the mapping sequence m
\* delivered to the mapping callback in the same round (every required
\* column is the target of an entry of m), and m is the mapping state the
\* validity summary of that render is computed from; the flag never
\* belongs to an older mapping state.
C23_FlagBelongsToDeliveredMappings ==
    [][ (validCalls' = validCalls + 1 /\ mapCalls' = mapCalls + 1)
            => /\ lastMapArg' = mappings
               /\ lastValidArg' =
                      (\A k \in 1..Len(RequiredIds) :
                            IsTargetOfSome(lastMapArg', RequiredIds[k]))
      ]_vars

\* C23 witness: after the user mapped "precio_total" to in_price_total a
\* round delivered the flag true with the complete mapping sequence, the
\* round before having delivered false.
C23_Witness ==
    /\ Quiescent
    /\ lastOp = "setMapping"
    /\ validCalls = 1 /\ mapCalls = 1
    /\ lastValidArg = TRUE
    /\ lastMapArg = mappings
    /\ mappings[5].systemColumn = "in_price_total"

\* C28: in every state reached through login, register, logout,
\* changePassword, updateProfile, clearError and initializeAuth, with any
\* outcome, isAuthenticated is true only if user and tokens are both
\* non-null, and false whenever both are null.
C28_AuthenticatedOnlyWithUserAndTokens ==
    /\ isAuthenticated => (user # null /\ tokens # null)
    /\ (user = null /\ tokens = null) => ~isAuthenticated

\* C24: the HTTP client retries a request at most once after a 401: a
\* failed answer starts a token refresh (and, after it, a retry) only when
\* its status is 401, the request has not been retried before and tokens
\* are stored; a 401 on the retried request, or a 401 with no tokens
\* stored, is rejected to the caller without further refresh or retry.
C24_AtMostOneRetryAfter401 ==
    [][ /\ \A i \in 1..Len(pending') : pending'[i].sends <= 2
        /\ lastEvent'.result = "refreshing"
              => /\ lastEvent'.status = 401
                 /\ ~lastEvent'.request.retry
                 /\ lastEvent'.request.sends = 1
                 /\ localStorage.ayni_tokens # NoItem
        /\ lastEvent'.result = "retried"
              => /\ lastEvent'.request.stage = "refreshing"
                 /\ lastEvent'.request.sends = 1
        /\ (/\ lastEvent'.kind = "response"
            /\ lastEvent'.status = 401
            /\ lastEvent'.request.sends = 2 \/ localStorage.ayni_tokens = NoItem)
              => /\ lastEvent'.result = "rejected"
                 /\ lastEvent'.reason = "error"
                 /\ Len(pending') = Len(pending) - 1
                 /\ \A i \in 1..Len(pending') : pending'[i].stage # "refreshing"
      ]_vars

\* C24 witness: the retry of a request was answered 401 and rejected, and
\* nothing awaits an answer.
C24_Witness ==
    /\ lastEvent.kind = "response"
    /\ lastEvent.status = 401
    /\ lastEvent.request.sends = 2
    /\ lastEvent.request.retry
    /\ lastEvent.result = "rejected"
    /\ pending = <<>>

\* C25: when a request fails with 401, tokens are stored and the refresh
\* fails, the client removes ayni_tokens and ayni_user from local storage,
\* redirects to /login and rejects with the refresh error, without sending
\* the request again; when the refresh succeeds, the new pair replaces
\* ayni_tokens before the retry is sent and the retry carries the new
\* access token.
C25_RefreshOutcome ==
    [][ /\ (lastEvent'.kind = "refresh" /\ lastEvent'.result # "retried")
              => /\ lastEvent'.request.stage = "refreshing"
                 /\ localStorage.ayni_tokens # NoItem
                 /\ localStorage'.ayni_tokens = NoItem
                 /\ localStorage'.ayni_user = NoItem
                 /\ location' = "/login"
                 /\ lastEvent'.result = "rejected"
                 /\ lastEvent'.reason = "refreshError"
                 /\ pending' = <<>>
        /\ (lastEvent'.kind = "refresh" /\ lastEvent'.result = "retried")
              => /\ lastEvent'.data.tokens \in IssuedTokens
                 /\ localStorage'.ayni_tokens =
                        JSON_stringify(lastEvent'.data.tokens)
                 /\ localStorage'.ayni_user = localStorage.ayni_user
                 /\ Len(pending') = 1
                 /\ pending'[1].op = lastEvent'.request.op
                 /\ pending'[1].stage = "sent"
                 /\ pending'[1].sends = 2
                 /\ pending'[1].Authorization =
                        << "Bearer", << "access", lastEvent'.data.tokens >> >>
      ]_vars

\* C25 witness: with a user stored, the refresh after a 401 failed: both
\* items are gone, the page is /login and the store still holds the user.
C25_Witness ==
    /\ lastEvent.kind = "refresh"
    /\ lastEvent.reason = "refreshError"
    /\ lastEvent.request.Authorization # NoAuthorization
    /\ user # null
    /\ localStorage = EmptyStorage
    /\ location = "/login"

\* C26: logout always ends in the cleared state (user, tokens and error
\* null, isAuthenticated and isLoading false, ayni_tokens and ayni_user
\* removed) and never rejects, whether the server call succeeds, fails or
\* is skipped because no refresh token is held.
C26_LogoutEndsCleared ==
    [][ (lastEvent'.request.op = "logout" /\ lastEvent'.kind # "begin"
            /\ lastEvent'.result # "refreshing" /\ lastEvent'.result # "retried")
            => /\ lastEvent'.call = "resolved"
               /\ user' = null
               /\ tokens' = null
               /\ isAuthenticated' = FALSE
               /\ isLoading' = FALSE
               /\ error' = null
               /\ localStorage' = EmptyStorage
               /\ \A i \in 1..Len(pending') : pending'[i].op # "logout"
      ]_vars

\* C26 witness: an authenticated store has logged out, the server call
\* having failed.
C26_Witness ==
    /\ lastEvent.request.op = "logout"
    /\ lastEvent.request.body # NoBody
    /\ lastEvent.result = "rejected"
    /\ lastEvent.call = "resolved"
    /\ ~isAuthenticated
    /\ localStorage = EmptyStorage

\* C27: when the login or register API call fails, the store ends with
\* isLoading false and error set to the message, user, tokens,
\* isAuthenticated and the items ayni_tokens and ayni_user are as before,
\* and the error is raised again to the caller.
C27_FailedLoginLeavesStateAndStorage ==
    [][ (lastEvent'.request.op \in { "login", "register" }
            /\ lastEvent'.result = "rejected")
            => /\ lastEvent'.call = "rejected"
               /\ isLoading' = FALSE
               /\ error' = "message"
               /\ user' = user
               /\ tokens' = tokens
               /\ isAuthenticated' = isAuthenticated
               /\ localStorage' = localStorage
      ]_vars

\* C29: after any completed sequence of login, register, logout and API
\* requests, also ones whose 401 makes the client refresh or clear the
\* tokens, the pair held in the store equals the pair stored as
\* ayni_tokens: both absent or both the same pair.
C29_StoreTokensEqualStoredTokens ==
    pending = <<>> =>
        IF tokens = null THEN localStorage.ayni_tokens = NoItem
        ELSE localStorage.ayni_tokens = JSON_stringify(tokens)

\* C28 witness: a login awaited its answer when logout completed, and its
\* answer has authenticated the store again; another request still awaits
\* its answer.
C28_Witness ==
    /\ lastEvent.request.op = "login"
    /\ lastEvent.request.stale
    /\ lastEvent.call = "resolved"
    /\ isAuthenticated
    /\ user # null /\ tokens # null
    /\ pending # <<>>

\* C30: once a logout has completed, the answer to a login, register or
\* updateProfile call that awaited it when logout ran does not
\* authenticate the store again and does not bring back user, tokens or
\* the stored items: the store stays unauthenticated until a login or
\* register started after the logout succeeds.
C30_StaleAnswerCannotReauthenticate ==
    [][ (/\ lastEvent'.request.stale
         /\ lastEvent'.request.op \in { "login", "register", "updateProfile" }
         /\ lastEvent'.call # "none")
            => /\ isAuthenticated' => isAuthenticated
               /\ user' # null => user # null
               /\ tokens' # null => tokens # null
               /\ localStorage'.ayni_tokens # NoItem
                      => localStorage.ayni_tokens # NoItem
               /\ localStorage'.ayni_user # NoItem
                      => localStorage.ayni_user # NoItem
      ]_vars

\* C21: the login page's submit handler navigates to /dashboard if and
\* only if the store's login resolves: when login rejects the handler
\* swallows the error and does not navigate, and when the form does not
\* validate login is not called; independently, the page navigates to
\* /dashboard whenever isAuthenticated is true.
C21_NavigatesIffLoginResolves ==
    [][ /\ (\E data \in ResponseData("login") : LoginResolved(data))
              => (location = "/login" /\ location' = "/dashboard")
        /\ (location' # location /\ ~isAuthenticated)
              => /\ request = "pending"
                 /\ isAuthenticated'
                 /\ location' = "/dashboard"
        /\ LoginRejected
              => (location' = location /\ ~isAuthenticated' /\ request' = "none")
        /\ (calls' # calls \/ (request' = "pending" /\ request # "pending"))
              => /\ Len(form.email) >= 1 /\ isEmail(form.email)
                 /\ Len(form.password) >= 6
                 /\ lastData' = form
                 /\ calls' = calls + 1
        /\ (SubmitLogin /\ loginSchema(form) # {})
              => (calls' = calls /\ request' = request /\ isLoading' = isLoading
                    /\ location' = location)
        /\ (isAuthenticated /\ location = "/login")
              => location' = "/dashboard"
      ]_vars

\* C21 witness: a first login was rejected and left the page on /login
\* with the error shown, a second one resolved and the page is /dashboard.
C21_Witness ==
    /\ calls = 2
    /\ request = "none"
    /\ isAuthenticated
    /\ location = "/dashboard"
    /\ isEmail(lastData.email)

====
